---- MODULE Spec2Model ----
(***************************************************************************)
(* Contract Forensics Engine of WhiteMordred/Cryptobottle.                 *)
(*                                                                         *)
(* The repository holds two revisions of the SmartContractAnalyzer class:  *)
(*   "guarded"       src/smart-contract-analyzer.js  (isContract validates *)
(*                   its argument, analyzeFromHack writes no checkpoint)   *)
(*   "checkpointing" src/unnamed/part_003            (analyzeFromHack      *)
(*                   calls saveToJson after each phase, isContract does    *)
(*                   not validate)                                         *)
(* The variable version says which revision a behaviour runs.              *)
(*                                                                         *)
(* JavaScript strings that the code measures or slices (call inputs) are   *)
(* sequences of one-character strings; address strings, which the code     *)
(* only compares, are TLA+ strings.                                        *)
(***************************************************************************)
EXTENDS Integers, Sequences, FiniteSets, TLC

VARIABLES
    version,        \* which revision of the class is loaded
    tx,             \* classifier: the transaction last given to analyzeSingleTransaction
    abiThrows,      \* classifier: whether web3.eth.abi.decodeParameters threw on it
    analysis,       \* classifier: <<>> or <<result of analyzeSingleTransaction>>
    pc,             \* where analyzeFromHack stands
    runs,           \* number of analyzeFromHack calls made on this instance
    report,         \* this.report: <<>> (null) or <<the report object>>
    processedContracts,  \* this.processedContracts
    contractsToAnalyze,  \* traceContractCalls: the Set, in insertion order
    iter,           \* traceContractCalls: elements the for-of iterator has yielded
    contract,       \* traceContractCalls: the element being handled
    remaining,      \* traceContractCalls: entries of `transactions` not yet visited
    caught,         \* <<>> or <<error caught by analyzeFromHack>>
    raised,         \* <<>> or <<error analyzeFromHack threw to its caller>>
    returned,       \* <<>> or <<value analyzeFromHack returned>>
    disk,           \* the files of ./analysis_data
    now,            \* the last value Date.now() gave
    trail,          \* phases started and saveToJson labels of this run, in order
    fetched,        \* addresses whose history this crawl asked the explorer for, in order
    discovered,     \* recipients that passed the bytecode check in a history this instance read
    seen,           \* <<address, entry>> for every history entry this crawl visited, in order
    storageReads,   \* outcomes of the getStorageAt calls of analyzeHackTransaction in this run
    inspected,      \* state inspector: <<>> or <<the call made and the words the node answered>>
    contractState,  \* state inspector: <<>> or <<outcome of getContractState>>
    chainHead,      \* sampler: the node's latest block number
    spc,            \* sampler: where analyzeImplementationHistory stands
    latestBlock,    \* sampler: the local latestBlock
    currentBlock,   \* sampler: the local currentBlock
    implementations,  \* sampler: the local array
    samples,        \* sampler: <<height, outcome>> of every getStorageAt call made, in order
    traced,         \* trace analyzer: <<>> or <<the call made and its outcome>>
    answered,       \* explorer client: <<>> or <<the answer received and the list returned>>
    lastSaved,      \* checkpoint sink: per label, <<>> or <<the data last passed to saveToJson>>
    serialized,     \* report writers: <<>> or <<the report given and the JSON written>>
    snapshot,       \* seed transaction: <<>> or <<the slot reads made and the signal shown>>
    inflight,       \* fan-out: ledger and explorer calls awaiting their response
    fpc,            \* fan-out: <<the await of the run reached, where it stands there>>
    callbacks,      \* fan-out: the callbacks of a Promise.all, or the calls a loop has left
    logsDecoded,    \* log decoder: <<>> or <<the logs given and the entries returned>>
    victimRun,      \* victim analysis: <<>> or <<the history fetched and the transactions kept>>
    rpc,            \* failover: index of the endpoint being tried, 0 before the first
    attempts,       \* failover: the error of every attempt that failed, in order
    settled         \* failover: <<>> or <<what tryWithDifferentRPC returned or threw>>

classifyVars == <<tx, abiThrows, analysis>>

runVars == <<pc, runs, report, processedContracts, contractsToAnalyze, iter, contract,
             remaining, caught, raised, returned, disk, now, trail, fetched,
             discovered, seen, storageReads>>

inspectVars == <<inspected, contractState>>

samplerVars == <<chainHead, spc, latestBlock, currentBlock, implementations, samples>>

fanoutVars == <<inflight, fpc, callbacks>>

driverVars == <<rpc, attempts, settled>>

helperVars == <<traced, answered, lastSaved, serialized, snapshot, fanoutVars,
                logsDecoded, victimRun, driverVars>>

vars == <<version, tx, abiThrows, analysis, pc, runs, report, processedContracts,
          contractsToAnalyze, iter, contract, remaining, caught, raised, returned,
          disk, now, trail, fetched, discovered, seen, storageReads, inspected,
          contractState, chainHead, spc, latestBlock, currentBlock, implementations,
          samples, traced, answered, lastSaved, serialized, snapshot, inflight, fpc,
          callbacks, logsDecoded, victimRun, rpc, attempts, settled>>

Versions == {"guarded", "checkpointing"}

-----------------------------------------------------------------------------
(* Strings *)

\* JS undefined/null for a string-valued field: no character sequence equals it.
Undefined == <<"undefined">>

\* JS truthiness of a string-valued field: undefined, null and '' are falsy.
Truthy(s) == s # Undefined /\ s # <<>>

\* Runs one instance is given.
MaxRuns == 2

\* Entries of one history that pass the filter.
MaxTx == 1

\* The same, in the specifications of the guarded revision alone.
MaxTxReuse == 2

\* Entries the explorer lists to one crawl, over all its histories.
MaxSeen == 2

\* The same, in the specifications of the guarded revision alone.
MaxSeenReuse == 4

\* Largest value of the clock.
MaxClock == 1

Min(a, b) == IF a < b THEN a ELSE b

\* String.prototype.slice(a, b) for 0 <= a <= b.
slice(s, a, b) == SubSeq(s, a + 1, Min(b, Len(s)))

\* String.prototype.slice(a) for a >= 0.
sliceFrom(s, a) == SubSeq(s, a + 1, Len(s))

-----------------------------------------------------------------------------
(* Addresses *)

\* The all-zero address literal the code compares against.
ZERO_ADDRESS == "0x0000000000000000000000000000000000000000"

\* Address strings of the model.  "0xA1.." and "0xa1.." are the checksum
\* (mixed-case) and the lower-case rendering of the same 20 bytes: the seed
\* constants of the callers are written in checksum form, the block explorer
\* answers in lower case.
\* The victim contract the callers pass (analyze_hack.js).
VICTIM_CONTRACT == "0x8B5E"

\* The implementation the callers know of, in checksum form.
KNOWN_IMPLEMENTATION == "0x4660083D21e3A7e1eC5af8f46A31dCFAa78479Ed"

WellFormed == {"0xA1", "0xa1", "0xb2", "0xc3", VICTIM_CONTRACT, ZERO_ADDRESS}

\* Strings that are no address: the empty `to` of a contract creation and the
\* explorer's "GENESIS" sender.
Malformed == {"", "GENESIS"}

\* web3.utils.isAddress: a 0x-prefixed 40-digit hex string, all lower case,
\* all upper case or with a valid checksum.
isAddress(a) == a \in WellFormed

\* The 20-byte account an address string denotes.
Account(a) ==
    CASE a \in {"0xA1", "0xa1"} -> "acct1"
      [] a = "0xb2" -> "acct2"
      [] a = "0xc3" -> "acct3"
      [] a = VICTIM_CONTRACT -> "victim"
      [] a = ZERO_ADDRESS -> "acct0"
      [] OTHER -> "none"

\* Mutant: the zero address passes.
isValidAddress_zeroPasses(address) == isAddress(address)

isValidAddress(address) == isAddress(address) /\ address # ZERO_ADDRESS

-----------------------------------------------------------------------------
(* Selector table and classifier *)

UPGRADE_TO          == <<"0","x","3","6","5","9","c","f","e","6">>
UPGRADE_TO_AND_CALL == <<"0","x","4","f","1","e","f","2","8","6">>
CHANGE_ADMIN        == <<"0","x","8","f","2","8","3","9","7","0">>
INITIALIZE          == <<"0","x","8","1","2","9","f","c","1","c">>

\* Object.entries(this.FUNCTION_SIGNATURES), in insertion order.
FUNCTION_SIGNATURES ==
    << <<"UPGRADE_TO", UPGRADE_TO>>,
       <<"UPGRADE_TO_AND_CALL", UPGRADE_TO_AND_CALL>>,
       <<"CHANGE_ADMIN", CHANGE_ADMIN>>,
       <<"INITIALIZE", INITIALIZE>> >>

\* Length of "0x" plus one 4-byte selector in hex digits.
SelectorLen == 10

isSuspiciousSignature_all(signature) ==
    \E i \in 1..Len(FUNCTION_SIGNATURES) : FUNCTION_SIGNATURES[i][2] = signature

isSuspiciousSignature(signature) ==
    signature \in {UPGRADE_TO, UPGRADE_TO_AND_CALL, CHANGE_ADMIN}

\* The parameter schema per function name, as the set of <<name, type>>.
getAbiByFunctionName(functionName) ==
    CASE functionName = "UPGRADE_TO" -> <<<<"implementation", "address">>>>
      [] functionName = "UPGRADE_TO_AND_CALL" ->
            <<<<"implementation", "address">>, <<"data", "bytes">>>>
      [] functionName = "CHANGE_ADMIN" -> <<<<"newAdmin", "address">>>>
      [] functionName = "INITIALIZE" -> <<>>
      [] OTHER -> <<>>

\* The object decodeParameters returns when it does not throw: one entry per
\* parameter of the schema (the decoded values are not modelled).
decodedParams(paramsAbi) == {paramsAbi[i] : i \in 1..Len(paramsAbi)}

UnknownMethod == [method |-> "unknown", params |-> {}]

\* Array.prototype.find over the entries: the first entry with this selector.
findMethod(functionSignature) ==
    LET hits == {i \in 1..Len(FUNCTION_SIGNATURES) :
                    FUNCTION_SIGNATURES[i][2] = functionSignature}
    IN  IF hits = {} THEN <<>>
        ELSE <<FUNCTION_SIGNATURES[CHOOSE i \in hits : \A j \in hits : i <= j]>>

decodeTransactionInput_downgrade(inputData, throws) ==
    IF ~Truthy(inputData) \/ Len(inputData) < SelectorLen THEN UnknownMethod
    ELSE
      LET method == findMethod(slice(inputData, 0, SelectorLen))
      IN  IF method = <<>> THEN UnknownMethod
          ELSE
            LET functionName == method[1][1]
                paramsAbi == getAbiByFunctionName(functionName)
            IN  IF Len(paramsAbi) = 0 THEN [method |-> functionName, params |-> {}]
                ELSE IF throws THEN UnknownMethod
                ELSE [method |-> functionName, params |-> decodedParams(paramsAbi)]

\* throws: whether web3.eth.abi.decodeParameters(paramsAbi, inputData.slice(10))
\* throws on this input.
decodeTransactionInput(inputData, throws) ==
    IF ~Truthy(inputData) \/ Len(inputData) < SelectorLen THEN UnknownMethod
    ELSE
      LET functionSignature == slice(inputData, 0, SelectorLen)
          method == findMethod(functionSignature)
      IN  IF method = <<>> THEN UnknownMethod
          ELSE
            LET functionName == method[1][1]
                paramsAbi == getAbiByFunctionName(functionName)
            IN  IF Len(paramsAbi) = 0 THEN [method |-> functionName, params |-> {}]
                ELSE IF throws THEN [method |-> functionName, params |-> {}]
                ELSE [method |-> functionName, params |-> decodedParams(paramsAbi)]

\* The from/to the analysis copies: the guarded revision replaces an invalid
\* one by a placeholder, the checkpointing one copies it.
analysisAddress(v, a) ==
    IF v = "guarded" /\ ~isValidAddress(a) THEN "Adresse invalide" ELSE a

analysisBase(v, t) ==
    [hash |-> t.hash, from |-> analysisAddress(v, t.from),
     to |-> analysisAddress(v, t.to), input |-> t.input,
     suspicious |-> FALSE, reason |-> <<>>]

analysisDecoded(v, t, throws, flag) ==
    [hash |-> t.hash, from |-> analysisAddress(v, t.from),
     to |-> analysisAddress(v, t.to), input |-> t.input,
     suspicious |-> flag,
     reason |-> IF flag THEN <<"suspicious_signature">> ELSE <<>>,
     decodedInput |-> decodeTransactionInput(t.input, throws)]

\* Mutant: the flag is taken from the decoded parameters, not from the selector.
analyzeSingleTransaction_byParams(v, t, throws) ==
    IF Truthy(t.input) /\ Len(t.input) >= SelectorLen
    THEN analysisDecoded(v, t, throws,
            isSuspiciousSignature(slice(t.input, 0, SelectorLen))
            /\ decodeTransactionInput(t.input, throws).params # {})
    ELSE analysisBase(v, t)

\* Mutant: the length test is dropped, any non-empty input is decoded.
analyzeSingleTransaction_noLength(v, t, throws) ==
    IF Truthy(t.input)
    THEN analysisDecoded(v, t, throws,
            isSuspiciousSignature(slice(t.input, 0, SelectorLen)))
    ELSE analysisBase(v, t)

\* value and timestamp are copied through and not modelled.
analyzeSingleTransaction(v, t, throws) ==
    IF Truthy(t.input) /\ Len(t.input) >= SelectorLen
    THEN LET signature == slice(t.input, 0, SelectorLen)
         IN  analysisDecoded(v, t, throws, isSuspiciousSignature(signature))
    ELSE analysisBase(v, t)

-----------------------------------------------------------------------------
(* Classifier inputs *)

TRANSFER  == <<"0","x","a","9","0","5","9","c","b","b">>
NEAR_MISS == <<"0","x","3","6","5","9","c","f","e","7">>

\* Hex digits of one 32-byte ABI word.
WordLen == 64

Word == [i \in 1..WordLen |-> IF i = WordLen THEN "1" ELSE "0"]

Selectors == {UPGRADE_TO, UPGRADE_TO_AND_CALL, CHANGE_ADMIN, INITIALIZE,
              TRANSFER, NEAR_MISS}

Tails == {<<>>, <<"0","0">>, Word, Word \o Word}

ShortInputs == {Undefined, <<>>, <<"0","x">>, SubSeq(UPGRADE_TO, 1, 9)}

Inputs == ShortInputs \cup {s \o t : s \in Selectors, t \in Tails}

ClassifierTxs ==
    [hash : {"h1"}, from : {"0xc3", "GENESIS"}, to : {"0xa1", ""}, input : Inputs]

-----------------------------------------------------------------------------
(* Classifier specification: analyzeSingleTransaction on drawn inputs *)

\* The instance right after its constructor ran.
Constructed ==
    /\ pc = "idle"
    /\ runs = 0
    /\ report = <<>>
    /\ processedContracts = {}
    /\ contractsToAnalyze = <<>>
    /\ iter = 0
    /\ contract = ""
    /\ remaining = 0
    /\ caught = <<>>
    /\ raised = <<>>
    /\ returned = <<>>
    /\ disk = {}
    /\ now = 0
    /\ trail = <<>>
    /\ fetched = <<>>
    /\ discovered = {}
    /\ seen = <<>>
    /\ storageReads = <<>>

\* No call of the state inspector or of the sampler has been made.
StorageIdle ==
    /\ inspected = <<>>
    /\ contractState = <<>>
    /\ chainHead = 0
    /\ spc = "idle"
    /\ latestBlock = 0
    /\ currentBlock = 0
    /\ implementations = <<>>
    /\ samples = <<>>

\* Labels analyzeFromHack saves under.
Labels == {"step1", "step2", "step3", "final", "error"}

\* No helper has been called on its own.
HelpersIdle ==
    /\ traced = <<>>
    /\ answered = <<>>
    /\ lastSaved = [l \in Labels |-> <<>>]
    /\ serialized = <<>>
    /\ snapshot = <<>>
    /\ inflight = 0
    /\ fpc = <<0, "idle">>
    /\ callbacks = <<>>
    /\ logsDecoded = <<>>
    /\ victimRun = <<>>
    /\ rpc = 0
    /\ attempts = <<>>
    /\ settled = <<>>

InitClassify ==
    /\ version \in Versions
    /\ tx \in ClassifierTxs
    /\ abiThrows \in BOOLEAN
    /\ analysis = <<>>
    /\ Constructed
    /\ StorageIdle
    /\ HelpersIdle

Classify ==
    \E t \in ClassifierTxs, th \in BOOLEAN :
        /\ tx' = t
        /\ abiThrows' = th
        /\ analysis' = <<analyzeSingleTransaction(version, t, th)>>
        /\ UNCHANGED <<version, runVars, inspectVars, helperVars, samplerVars>>

NextClassify == Classify

SpecClassify == InitClassify /\ [][NextClassify]_vars

-----------------------------------------------------------------------------
(* The ledger and the explorer, as far as a run looks at them *)

\* The constants the callers pass (analyze_hack.js).
HACK_TX == "0xe97e"

\* Accounts with bytecode: getCode answers something other than '0x'.
HasCode(a) == Account(a) \in {"acct1", "acct2", "victim"}

\* Seeds the crawl is started from: a contract in checksum form, a contract in
\* lower case, the zero address, and a string that is no address.
Seeds == {"0xA1", "0xb2", ZERO_ADDRESS, "GENESIS"}

\* Hex strings the code slices or compares are sequences of characters.
Zeros(n) == [i \in 1..n |-> "0"]

HexPrefix == <<"0", "x">>

\* The low-order 20 bytes of the words below.
IMPL1_DIGITS ==
    <<"4", "6", "6", "0", "0", "8", "3", "d", "2", "1",
      "e", "3", "a", "7", "e", "1", "e", "c", "5", "a",
      "f", "8", "f", "4", "6", "a", "3", "1", "d", "c",
      "f", "a", "a", "7", "8", "4", "7", "9", "e", "d">>

IMPL2_DIGITS ==
    <<"b", "a", "d", "1", "b", "a", "d", "1", "b", "a",
      "d", "1", "b", "a", "d", "1", "b", "a", "d", "1",
      "b", "a", "d", "1", "b", "a", "d", "1", "b", "a",
      "d", "1", "b", "a", "d", "1", "b", "a", "d", "1">>

ADMIN_DIGITS ==
    <<"a", "d", "3", "1", "a", "d", "3", "1", "a", "d",
      "3", "1", "a", "d", "3", "1", "a", "d", "3", "1",
      "a", "d", "3", "1", "a", "d", "3", "1", "a", "d",
      "3", "1", "a", "d", "3", "1", "a", "d", "3", "1">>

\* getStorageAt answers with a 32-byte word: an empty slot, an address padded
\* on the left, and a slot whose high-order bytes are in use as well.
ZERO_WORD == HexPrefix \o Zeros(64)

IMPL1_WORD == HexPrefix \o Zeros(24) \o IMPL1_DIGITS

IMPL2_WORD == HexPrefix \o Zeros(24) \o IMPL2_DIGITS

ADMIN_WORD == HexPrefix \o Zeros(24) \o ADMIN_DIGITS

PACKED_WORD == HexPrefix \o <<"f", "f">> \o Zeros(22) \o IMPL1_DIGITS

\* getStorageAt rejected: no hex string equals it.
Rejects == <<"rejects">>

\* The literal '0x0000000000000000000000000000000000000000' as a string to
\* compare character strings with.
ZERO_ADDRESS_CHARS == HexPrefix \o Zeros(40)

\* String.prototype.slice(-n).
sliceLast(s, n) == SubSeq(s, IF Len(s) > n THEN Len(s) - n + 1 ELSE 1, Len(s))

\* web3.utils.toChecksumAddress on the addresses of the model: the same
\* account in mixed case.
toChecksumAddress(chars) ==
    CASE chars = ZERO_ADDRESS_CHARS -> ZERO_ADDRESS
      [] chars = HexPrefix \o IMPL1_DIGITS -> KNOWN_IMPLEMENTATION
      [] chars = HexPrefix \o IMPL2_DIGITS -> "0xbaD1BAd1bAD1bAd1BAD1bad1bAD1bAD1BAD1bAD1"
      [] chars = HexPrefix \o ADMIN_DIGITS -> "0xAd31aD31Ad31aD31AD31ad31aD31Ad31ad31aD31"
      [] OTHER -> "0x(another account)"

\* Mutant: the leading 20 bytes of the word are taken.
normalizeAddress_leading(hexData) ==
    toChecksumAddress(HexPrefix \o SubSeq(hexData, 3, 42))

\* toChecksumAddress('0x' + hexData.slice(-40)): the low-order 20 bytes.
normalizeAddress(hexData) == toChecksumAddress(HexPrefix \o sliceLast(hexData, 40))

\* Records the explorer may list for an address (txlist): a suspicious call to
\* a contract, a plain call to another contract, a transfer to an externally
\* owned account, a genesis allocation, a contract creation, a burn, and a
\* suspicious call whose parameters are cut short.
T1 == [hash |-> "0xt1", from |-> "0xc3", to |-> "0xa1", input |-> UPGRADE_TO \o Word]
T2 == [hash |-> "0xt2", from |-> "0xc3", to |-> "0xb2", input |-> <<"0","x">>]
T3 == [hash |-> "0xt3", from |-> "0xa1", to |-> "0xc3", input |-> TRANSFER \o Word]
T4 == [hash |-> "0xt4", from |-> "GENESIS", to |-> "0xb2", input |-> <<"0","x">>]
T5 == [hash |-> "0xt5", from |-> "0xc3", to |-> "", input |-> UPGRADE_TO \o Word]
T6 == [hash |-> "0xt6", from |-> "0xc3", to |-> ZERO_ADDRESS, input |-> <<"0","x">>]

T7 == [hash |-> "0xt7", from |-> "0xc3", to |-> "0xb2",
       input |-> CHANGE_ADMIN \o <<"0","0">>]

ExplorerTxs == {T1, T2, T3, T4, T5, T6, T7}

\* A critical call from one contract to another: the explorer lists it in the
\* history of its sender and in the history of its recipient.
T8 == [hash |-> "0xt8", from |-> "0xb2", to |-> "0xa1", input |-> UPGRADE_TO \o Word]

\* What the txlist request for address a lists: the transactions a sent or
\* received.
ListedFor(a) ==
    {e \in ExplorerTxs \cup {T8} : Account(a) \in {Account(e.from), Account(e.to)}}

\* decodeParameters throws on parameter data shorter than one word.
DecodeThrows(t) == Len(t.input) < SelectorLen + WordLen

\* Internal calls the explorer may list for the seed transaction (txlistinternal).
TraceLists ==
    { <<>>,
      <<[from |-> "0xc3", to |-> "0xa1", input |-> UPGRADE_TO \o Word]>>,
      <<[from |-> "0xb2", to |-> "", input |-> <<"0","x">>]>> }

-----------------------------------------------------------------------------
(* JavaScript Set and JSON *)

\* Set.prototype.add on the insertion-ordered element list.
SetAdd(items, x) ==
    IF \E i \in 1..Len(items) : items[i] = x THEN items ELSE Append(items, x)

\* A Set held by the report: the tag tells it from an Array.
NewSet == [Set |-> <<>>]

\* The replacer of saveToJson writes a Set as Array.from(value).
replacer(r) == [r EXCEPT !.relatedContracts = @.Set]

\* JSON.stringify(data, replacer, 2) of this.report: null, or the object.
stringify(data) == IF data = <<>> THEN <<>> ELSE <<replacer(data[1])>>

\* saveToJson: every failure inside is caught and logged; otherwise the file
\* ./analysis_data/<prefix>_<Date.now()>.json is written (and replaced if it exists).
saveToJson(files, prefix, data, t, fails) ==
    IF fails THEN files
    ELSE {f \in files : f.name # <<prefix, t>>}
            \cup {[name |-> <<prefix, t>>, data |-> stringify(data)]}

-----------------------------------------------------------------------------
(* Helpers of the analyzer *)

\* isContract: "true", "false", or "throws" when web3's getCode rejects its
\* argument.  Only the guarded revision validates the address first.
isContract(v, address) ==
    IF v = "guarded" /\ ~isValidAddress(address) THEN "false"
    ELSE IF ~isAddress(address) THEN "throws"
    ELSE IF HasCode(address) THEN "true" ELSE "false"

\* Mutant: an input of exactly one selector is too short.
isSuspiciousCall_strict(trace) ==
    IF ~Truthy(trace.input) \/ Len(trace.input) <= SelectorLen THEN FALSE
    ELSE isSuspiciousSignature(slice(trace.input, 0, SelectorLen))

\* isSuspiciousCall: the selector test on the input of a trace step.
isSuspiciousCall(trace) ==
    IF ~Truthy(trace.input) \/ Len(trace.input) < SelectorLen THEN FALSE
    ELSE isSuspiciousSignature(slice(trace.input, 0, SelectorLen))

\* Mutant: the two checks are read in the other order.
traceType_swapped(isFromContract, isToContract) ==
    IF isToContract
    THEN (IF isFromContract THEN "contract-to-contract" ELSE "contract-to-eoa")
    ELSE (IF isFromContract THEN "eoa-to-contract" ELSE "eoa-to-eoa")

traceType(isFromContract, isToContract) ==
    IF isFromContract
    THEN (IF isToContract THEN "contract-to-contract" ELSE "contract-to-eoa")
    ELSE (IF isToContract THEN "eoa-to-contract" ELSE "eoa-to-eoa")

\* analyzeTraces: the loop over the traces, from the Set `related` on.
RECURSIVE analyzeTraces(_, _, _, _)
analyzeTraces(v, related, traces, analyzedTraces) ==
    IF traces = <<>>
    THEN [throws |-> FALSE, related |-> related, traces |-> analyzedTraces]
    ELSE
      LET trace == Head(traces)
          isFromContract == isContract(v, trace.from)
          isToContract == isContract(v, trace.to)
      IN  IF isFromContract = "throws" \/ isToContract = "throws"
          THEN [throws |-> TRUE, related |-> related, traces |-> analyzedTraces]
          ELSE
            LET r1 == IF isFromContract = "true" THEN SetAdd(related, trace.from)
                      ELSE related
                r2 == IF isToContract = "true" THEN SetAdd(r1, trace.to) ELSE r1
            IN  analyzeTraces(v, r2, Tail(traces),
                    Append(analyzedTraces,
                        [from |-> trace.from, to |-> trace.to, input |-> trace.input,
                         suspicious |-> isSuspiciousCall(trace),
                         type |-> traceType(isFromContract = "true",
                                            isToContract = "true")]))

\* Mutant: a rejected read is caught and answered with the zero address.
getContractState_swallows(implementation, admin) ==
    <<[implementation |-> IF implementation = Rejects THEN ZERO_ADDRESS
                          ELSE normalizeAddress(implementation),
       admin |-> IF admin = Rejects THEN ZERO_ADDRESS ELSE normalizeAddress(admin)]>>

\* getContractState on the outcomes of its two getStorageAt calls: <<>> when
\* one of them rejected (the call throws), else <<the state>>.
getContractState(implementation, admin) ==
    IF implementation = Rejects \/ admin = Rejects THEN <<>>
    ELSE <<[implementation |-> normalizeAddress(implementation),
            admin |-> normalizeAddress(admin)]>>

\* Mutant: only the sender is validated.
keepsTransaction_fromOnly(t) == isValidAddress(t.from)

\* The filter of getContractTransactions.
keepsTransaction(t) == isValidAddress(t.from) /\ isValidAddress(t.to)

\* getImplementationAt: <<>> for null, else <<address>>; read is the word
\* getStorageAt answered, or Rejects.
getImplementationAt(read) ==
    IF read = Rejects THEN <<>>
    ELSE IF Truthy(read) /\ read # ZERO_ADDRESS_CHARS THEN <<normalizeAddress(read)>>
    ELSE <<>>

\* Distance between two sampled heights.
Stride == 1000

\* The while loop of analyzeImplementationHistory from height `block` on, for
\* the head getBlockNumber answered: `found` is the array so far.
RECURSIVE sampleHistory(_, _, _, _)
sampleHistory(block, head, reads, found) ==
    IF block < head
    THEN LET impl == getImplementationAt(reads[block])
         IN  sampleHistory(block + Stride, head, reads,
                IF impl # <<>>
                THEN Append(found, [blockNumber |-> block, implementation |-> impl[1]])
                ELSE found)
    ELSE found

\* Heights the sampler reads below a head.
SampledHeights(head) == {h \in 0..(head - 1) : h % Stride = 0}

\* Heads getBlockNumber may answer.
Heads == {0, 500}

SampleReads == {Rejects, ZERO_WORD, IMPL1_WORD}

-----------------------------------------------------------------------------
(* analyzeFromHack *)

newReport(hackTxHash, victimContract, suspectAddress) ==
    [hackTransaction |-> hackTxHash,
     victimContract |-> victimContract,
     suspectAddress |-> suspectAddress,
     suspiciousActions |-> <<>>,
     relatedContracts |-> NewSet,
     hackDetails |-> <<>>,
     victimAnalysis |-> <<>>,
     implementationHistory |-> <<>>]

\* Mutant: no checkpoint between the phases.
afterPhase_noSave(v, phase) ==
    CASE phase = "phase1" -> "phase2"
      [] phase = "phase2" -> "phase3"
      [] phase = "phase3" -> "phase4"
      [] phase = "phase4" -> "returned"

\* Where analyzeFromHack goes when a phase has completed: the checkpointing
\* revision saves the report first, the guarded one starts the next phase.
afterPhase(v, phase) ==
    IF v = "checkpointing"
    THEN CASE phase = "phase1" -> "save1"
           [] phase = "phase2" -> "save2"
           [] phase = "phase3" -> "save3"
           [] phase = "phase4" -> "saveFinal"
    ELSE CASE phase = "phase1" -> "phase2"
           [] phase = "phase2" -> "phase3"
           [] phase = "phase3" -> "phase4"
           [] phase = "phase4" -> "returned"

\* After a saveToJson of the try block.
afterSave(save) ==
    CASE save = "save1" -> "phase2"
      [] save = "save2" -> "phase3"
      [] save = "save3" -> "phase4"
      [] save = "saveFinal" -> "returned"

saveLabel(save) ==
    CASE save = "save1" -> "step1"
      [] save = "save2" -> "step2"
      [] save = "save3" -> "step3"
      [] save = "saveFinal" -> "final"

\* Values Date.now() may give next.
ClockReads == {t \in now..MaxClock : t <= now + 1}

\* The phase at pc completed: go on, and return this.report after the last one.
Completes(phase) ==
    /\ pc' = afterPhase(version, phase)
    /\ returned' = IF pc' = "returned" THEN report' ELSE returned
    /\ caught' = caught

\* An await of the try block rejected with error e.
Throws(e) ==
    /\ pc' = "catch"
    /\ caught' = <<e>>
    /\ returned' = returned

\* analyzeFromHack is called on an instance that is not running: the first
\* call, or a later one on the same instance.
Call ==
    /\ pc \in {"idle", "returned", "thrown"}
    /\ runs < MaxRuns
    /\ \E suspectAddress \in Seeds :
         report' = <<newReport(HACK_TX, VICTIM_CONTRACT, suspectAddress)>>
    /\ runs' = runs + 1
    /\ pc' = "phase1"
    /\ caught' = <<>>
    /\ raised' = <<>>
    /\ returned' = <<>>
    /\ trail' = <<>>
    /\ contractsToAnalyze' = <<>>
    /\ iter' = 0
    /\ contract' = ""
    /\ remaining' = 0
    /\ fetched' = <<>>
    /\ seen' = <<>>
    /\ storageReads' = <<>>
    /\ UNCHANGED <<version, classifyVars, inspectVars, helperVars, samplerVars, processedContracts,
                   disk, now, discovered>>

\* Phase 1: analyzeHackTransaction.
analyzeHackTransaction ==
    /\ pc = "phase1"
    /\ trail' = Append(trail, "phase1")
    /\ \E fail \in {"none", "getTransaction"},
          traces \in TraceLists,
          rejectedAt \in 0..4 :
         LET r == analyzeTraces(version, report[1].relatedContracts.Set, traces, <<>>)
             grown == [report[1] EXCEPT !.relatedContracts = [Set |-> r.related]]
             \* the four getStorageAt calls, in the order of the awaits
             answers == <<IMPL1_WORD, ADMIN_WORD, IMPL2_WORD, ADMIN_WORD>>
             reads == [i \in 1..4 |-> IF i = rejectedAt THEN Rejects ELSE answers[i]]
             stateChangesBefore == getContractState(reads[1], reads[2])
             stateChangesAfter == getContractState(reads[3], reads[4])
             outcomes(n) == [i \in 1..n |-> IF reads[i] = Rejects THEN "rejected"
                                            ELSE "answered"]
         IN  IF fail = "getTransaction"
             THEN /\ Throws("getTransaction failed")
                  /\ UNCHANGED <<report, storageReads>>
             ELSE IF r.throws
             THEN /\ Throws("getCode rejected the address")
                  /\ report' = <<grown>>
                  /\ UNCHANGED storageReads
             ELSE IF stateChangesBefore = <<>>
             THEN /\ Throws("getStorageAt failed")
                  /\ report' = <<grown>>
                  /\ storageReads' = outcomes(rejectedAt)
             ELSE IF stateChangesAfter = <<>>
             THEN /\ Throws("getStorageAt failed")
                  /\ report' = <<grown>>
                  /\ storageReads' = outcomes(rejectedAt)
             ELSE /\ report' = <<[grown EXCEPT !.hackDetails =
                        <<[traces |-> r.traces,
                           stateChanges |->
                              [before |-> stateChangesBefore[1],
                               after |-> stateChangesAfter[1]]]>>]>>
                  /\ storageReads' = outcomes(4)
                  /\ Completes("phase1")
    /\ UNCHANGED <<version, classifyVars, inspectVars, helperVars, samplerVars, runs,
                   processedContracts, contractsToAnalyze, iter, contract, remaining,
                   raised, disk, now, fetched, discovered, seen>>

\* Phase 2: analyzeVictimContract.
analyzeVictimContract ==
    /\ pc = "phase2"
    /\ trail' = Append(trail, "phase2")
    /\ \E fail \in BOOLEAN, t \in ExplorerTxs, n \in 0..1 :
         LET transactions == SelectSeq(IF n = 0 THEN <<>> ELSE <<t>>, keepsTransaction)
             analyzedTxs == [i \in 1..Len(transactions) |->
                                analyzeSingleTransaction(version, transactions[i],
                                                         DecodeThrows(transactions[i]))]
             suspect(a) == a.suspicious
         IN  IF fail
             THEN Throws("getCode failed") /\ report' = report
             ELSE /\ report' = <<[report[1] EXCEPT !.victimAnalysis =
                        <<[isProxy |-> TRUE,
                           transactions |-> SelectSeq(analyzedTxs, suspect)]>>]>>
                  /\ Completes("phase2")
    /\ UNCHANGED <<version, classifyVars, inspectVars, helperVars, samplerVars, runs,
                   processedContracts, contractsToAnalyze, iter, contract, remaining,
                   raised, disk, now, fetched, discovered, seen, storageReads>>

\* Phase 3 starts: traceContractCalls(suspectAddress) builds its Set.
traceContractCalls ==
    /\ pc = "phase3"
    /\ trail' = Append(trail, "phase3")
    /\ contractsToAnalyze' = <<report[1].suspectAddress>>
    /\ iter' = 0
    /\ fetched' = <<>>
    /\ seen' = <<>>
    /\ pc' = "crawl"
    /\ UNCHANGED <<version, classifyVars, inspectVars, helperVars, samplerVars, runs, report,
                   processedContracts, contract, remaining, caught, raised, returned,
                   disk, now, discovered, storageReads>>

\* Mutant: the loop is left after its first element.
CrawlEnds_early ==
    /\ pc = "crawl"
    /\ iter >= 1
    /\ Completes("phase3")
    /\ UNCHANGED <<version, classifyVars, inspectVars, helperVars, samplerVars, runs, report,
                   processedContracts, contractsToAnalyze, iter, contract, remaining,
                   raised, disk, now, trail, fetched, discovered, seen, storageReads>>

\* The for-of loop over the Set has no element left.
CrawlEnds ==
    /\ pc = "crawl"
    /\ iter = Len(contractsToAnalyze)
    /\ Completes("phase3")
    /\ UNCHANGED <<version, classifyVars, inspectVars, helperVars, samplerVars, runs, report,
                   processedContracts, contractsToAnalyze, iter, contract, remaining,
                   raised, disk, now, trail, fetched, discovered, seen, storageReads>>

\* The for-of loop yields the next element, which is skipped.
CrawlSkips ==
    /\ pc = "crawl"
    /\ iter < Len(contractsToAnalyze)
    /\ contract' = contractsToAnalyze[iter + 1]
    /\ iter' = iter + 1
    /\ ~isValidAddress(contract') \/ contract' \in processedContracts
    /\ UNCHANGED <<version, classifyVars, inspectVars, helperVars, samplerVars, pc, runs, report,
                   processedContracts, contractsToAnalyze, remaining, caught, raised,
                   returned, disk, now, trail, fetched, discovered, seen, storageReads>>

\* The for-of loop yields the next element, which is marked processed and
\* whose history is requested: the request fails, the explorer answers with a
\* status other than '1', or it answers with a list of which n <= maxTx
\* entries pass the filter (maxSeen bounds the entries of a crawl).
Fetch(maxTx, maxSeen) ==
    /\ pc = "crawl"
    /\ iter < Len(contractsToAnalyze)
    /\ contract' = contractsToAnalyze[iter + 1]
    /\ iter' = iter + 1
    /\ isValidAddress(contract')
    /\ contract' \notin processedContracts
    /\ processedContracts' = processedContracts \cup {contract'}
    /\ fetched' = Append(fetched, contract')
    /\ \E answer \in {"throws", "status0", "status1"}, n \in 0..Min(maxTx, maxSeen - Len(seen)) :
         IF answer = "throws"
         THEN Throws("fetch failed") /\ remaining' = remaining
         ELSE /\ remaining' = IF answer = "status1" THEN n ELSE 0
              /\ pc' = "crawlTx"
              /\ UNCHANGED <<caught, returned>>
    /\ UNCHANGED <<version, classifyVars, inspectVars, helperVars, samplerVars, runs, report,
                   contractsToAnalyze, raised, disk, now, trail, discovered, seen,
                   storageReads>>

CrawlFetches == Fetch(MaxTx, MaxSeen)

CrawlFetchesReuse == Fetch(MaxTxReuse, MaxSeenReuse)

\* The loop over `transactions` has no entry left.
HistoryEnds ==
    /\ pc = "crawlTx"
    /\ remaining = 0
    /\ pc' = "crawl"
    /\ UNCHANGED <<version, classifyVars, inspectVars, helperVars, samplerVars, runs, report,
                   processedContracts, contractsToAnalyze, iter, contract, remaining,
                   caught, raised, returned, disk, now, trail, fetched, discovered,
                   seen, storageReads>>

\* Mutant: the crawl also records a discovered contract in relatedContracts.
CrawlTx_relates ==
    /\ pc = "crawlTx"
    /\ remaining > 0
    /\ \E t \in {e \in ExplorerTxs : keepsTransaction(e)},
          codeFails \in BOOLEAN :
         LET asks == t.to # "" /\ isValidAddress(t.to)
             isTo == IF asks THEN isContract(version, t.to) ELSE "false"
             a == analyzeSingleTransaction(version, t, DecodeThrows(t))
         IN  IF asks /\ (codeFails \/ isTo = "throws")
             THEN /\ Throws("getCode failed")
                  /\ UNCHANGED <<contractsToAnalyze, discovered, report, remaining, seen>>
             ELSE /\ contractsToAnalyze' =
                        IF isTo = "true" THEN SetAdd(contractsToAnalyze, t.to)
                        ELSE contractsToAnalyze
                  /\ discovered' =
                        IF isTo = "true" THEN discovered \cup {t.to} ELSE discovered
                  /\ report' =
                        LET related == IF isTo = "true"
                                       THEN SetAdd(report[1].relatedContracts.Set, t.to)
                                       ELSE report[1].relatedContracts.Set
                            grown == [report[1] EXCEPT !.relatedContracts =
                                                           [Set |-> related]]
                        IN  IF a.suspicious
                            THEN <<[grown EXCEPT !.suspiciousActions = Append(@, a)]>>
                            ELSE <<grown>>
                  /\ remaining' = remaining - 1
                  /\ seen' = Append(seen, <<contract, t>>)
                  /\ UNCHANGED <<pc, caught, returned>>
    /\ UNCHANGED <<version, classifyVars, inspectVars, helperVars, samplerVars, runs,
                   processedContracts, iter, contract, raised, disk, now, trail,
                   fetched, storageReads>>

\* The loop over `transactions` visits its next entry t (the entries of the
\* list are drawn when the loop reaches them; the loop does not change the
\* list), one of `txs`.  codeFails: getCode fails in transport.
Visit(txs) ==
    /\ pc = "crawlTx"
    /\ remaining > 0
    /\ \E t \in {e \in txs : keepsTransaction(e)},
          codeFails \in BOOLEAN :
         LET asks == t.to # "" /\ isValidAddress(t.to)
             isTo == IF asks THEN isContract(version, t.to) ELSE "false"
             a == analyzeSingleTransaction(version, t, DecodeThrows(t))
         IN  IF asks /\ (codeFails \/ isTo = "throws")
             THEN /\ Throws("getCode failed")
                  /\ UNCHANGED <<contractsToAnalyze, discovered, report, remaining, seen>>
             ELSE /\ contractsToAnalyze' =
                        IF isTo = "true" THEN SetAdd(contractsToAnalyze, t.to)
                        ELSE contractsToAnalyze
                  /\ discovered' =
                        IF isTo = "true" THEN discovered \cup {t.to} ELSE discovered
                  /\ report' =
                        IF a.suspicious
                        THEN <<[report[1] EXCEPT !.suspiciousActions = Append(@, a)]>>
                        ELSE report
                  /\ remaining' = remaining - 1
                  /\ seen' = Append(seen, <<contract, t>>)
                  /\ UNCHANGED <<pc, caught, returned>>
    /\ UNCHANGED <<version, classifyVars, inspectVars, helperVars, samplerVars, runs,
                   processedContracts, iter, contract, raised, disk, now, trail,
                   fetched, storageReads>>

\* Any entry the explorer may list, in any history.
CrawlTx == Visit(ExplorerTxs)

\* The entries the explorer lists for the address whose history is read.
CrawlTxListed == Visit(ListedFor(contract))

\* Phase 4: analyzeImplementationHistory.
analyzeImplementationHistory ==
    /\ pc = "phase4"
    /\ trail' = Append(trail, "phase4")
    /\ \E fail \in BOOLEAN, head \in Heads :
         \E reads \in [SampledHeights(head) -> SampleReads] :
           IF fail
           THEN Throws("getBlockNumber failed") /\ report' = report
           ELSE /\ report' = <<[report[1] EXCEPT !.implementationHistory =
                        <<sampleHistory(0, head, reads, <<>>)>>]>>
                /\ Completes("phase4")
    /\ UNCHANGED <<version, classifyVars, inspectVars, helperVars, samplerVars, runs,
                   processedContracts, contractsToAnalyze, iter, contract, remaining,
                   raised, disk, now, fetched, discovered, seen, storageReads>>

\* Mutant: a write that fails rejects, and the run goes to its catch block.
Checkpoint_propagates ==
    /\ pc \in {"save1", "save2", "save3", "saveFinal"}
    /\ trail' = Append(trail, saveLabel(pc))
    /\ \E fails \in BOOLEAN, t \in ClockReads :
         /\ disk' = saveToJson(disk, <<report[1].hackTransaction, saveLabel(pc)>>,
                               report, t, fails)
         /\ now' = t
         /\ IF fails
            THEN Throws("writeFile failed")
            ELSE /\ pc' = afterSave(pc)
                 /\ returned' = IF pc' = "returned" THEN report ELSE returned
                 /\ caught' = caught
    /\ UNCHANGED <<version, classifyVars, inspectVars, helperVars, samplerVars, runs, report,
                   processedContracts, contractsToAnalyze, iter, contract, remaining,
                   raised, fetched, discovered, seen, storageReads>>

\* saveToJson after a phase (checkpointing revision), then the next statement:
\* the next phase, or return this.report after the last save.
Checkpoint ==
    /\ pc \in {"save1", "save2", "save3", "saveFinal"}
    /\ trail' = Append(trail, saveLabel(pc))
    /\ \E fails \in BOOLEAN, t \in ClockReads :
         /\ disk' = saveToJson(disk, <<report[1].hackTransaction, saveLabel(pc)>>,
                               report, t, fails)
         /\ now' = t
    /\ pc' = afterSave(pc)
    /\ returned' = IF pc' = "returned" THEN report ELSE returned
    /\ UNCHANGED <<version, classifyVars, inspectVars, helperVars, samplerVars, runs, report,
                   processedContracts, contractsToAnalyze, iter, contract, remaining,
                   caught, raised, fetched, discovered, seen, storageReads>>

\* The catch block: log, save under the error label (checkpointing revision
\* only), rethrow the caught error.
Catch ==
    /\ pc = "catch"
    /\ \E fails \in BOOLEAN, t \in ClockReads :
         IF version = "checkpointing"
         THEN /\ disk' = saveToJson(disk, <<report[1].hackTransaction, "error">>,
                                    report, t, fails)
              /\ now' = t
              /\ trail' = Append(trail, "error")
         ELSE UNCHANGED <<disk, now, trail>>
    /\ raised' = caught
    /\ pc' = "thrown"
    /\ UNCHANGED <<version, classifyVars, inspectVars, helperVars, samplerVars, runs, report,
                   processedContracts, contractsToAnalyze, iter, contract, remaining,
                   caught, returned, fetched, discovered, seen, storageReads>>

\* A fresh instance per run, as the callers of this repository make it.
FirstCall == pc = "idle" /\ Call

Init ==
    /\ version \in Versions
    /\ tx = T1
    /\ abiThrows = FALSE
    /\ analysis = <<>>
    /\ Constructed
    /\ StorageIdle
    /\ HelpersIdle

Next ==
    \/ FirstCall
    \/ analyzeHackTransaction
    \/ analyzeVictimContract
    \/ traceContractCalls
    \/ CrawlEnds
    \/ CrawlSkips
    \/ CrawlFetches
    \/ HistoryEnds
    \/ CrawlTx
    \/ analyzeImplementationHistory
    \/ Checkpoint
    \/ Catch

\* One run of analyzeFromHack on a fresh instance, in either revision.
Spec == Init /\ [][Next]_vars

InitReuse ==
    /\ version = "guarded"
    /\ tx = T1
    /\ abiThrows = FALSE
    /\ analysis = <<>>
    /\ Constructed
    /\ StorageIdle
    /\ HelpersIdle

NextReuse ==
    \/ Call
    \/ analyzeHackTransaction
    \/ analyzeVictimContract
    \/ traceContractCalls
    \/ CrawlEnds
    \/ CrawlSkips
    \/ CrawlFetchesReuse
    \/ HistoryEnds
    \/ CrawlTx
    \/ analyzeImplementationHistory
    \/ Catch

\* The guarded revision, with analyzeFromHack called again on the same
\* instance after it returned or threw.
SpecReuse == InitReuse /\ [][NextReuse]_vars

NextGuarded ==
    \/ FirstCall
    \/ analyzeHackTransaction
    \/ analyzeVictimContract
    \/ traceContractCalls
    \/ CrawlEnds
    \/ CrawlSkips
    \/ CrawlFetches
    \/ HistoryEnds
    \/ CrawlTx
    \/ analyzeImplementationHistory
    \/ Catch

\* One run of the guarded revision on a fresh instance where every await
\* settles: a run that can take a step takes one.
SpecGuarded == InitReuse /\ [][NextGuarded]_vars /\ WF_vars(NextGuarded)

NextCrawl ==
    \/ FirstCall
    \/ analyzeHackTransaction
    \/ analyzeVictimContract
    \/ traceContractCalls
    \/ CrawlEnds
    \/ CrawlSkips
    \/ CrawlFetchesReuse
    \/ HistoryEnds
    \/ CrawlTx
    \/ analyzeImplementationHistory
    \/ Catch

\* One run of the guarded revision on a fresh instance, with longer
\* histories.
SpecCrawl == InitReuse /\ [][NextCrawl]_vars

NextListed ==
    \/ FirstCall
    \/ analyzeHackTransaction
    \/ analyzeVictimContract
    \/ traceContractCalls
    \/ CrawlEnds
    \/ CrawlSkips
    \/ CrawlFetches
    \/ HistoryEnds
    \/ CrawlTxListed
    \/ analyzeImplementationHistory
    \/ Catch

\* One run of the guarded revision on a fresh instance, the explorer listing
\* for every address the transactions that address sent or received.
SpecListed == InitReuse /\ [][NextListed]_vars

-----------------------------------------------------------------------------
(* analyzeImplementationHistory, step by step *)

\* Blocks the chain gains in one step of the model.
BlockStep == 500

\* Steps by which the chain grows.
MaxGrowth == 6

SamplerReads == {Rejects, ZERO_WORD, IMPL1_WORD, IMPL2_WORD}

\* Mutant: the head itself is sampled too.
scanning_inclusive == currentBlock <= latestBlock

\* The condition of the while loop.
scanning == currentBlock < latestBlock

\* New blocks are mined, before or during the scan.
ChainGrows ==
    /\ spc \in {"idle", "loop"}
    /\ chainHead + BlockStep <= MaxGrowth * BlockStep
    /\ chainHead' = chainHead + BlockStep
    /\ UNCHANGED <<version, classifyVars, runVars, inspectVars, helperVars, spc, latestBlock,
                   currentBlock, implementations, samples>>

\* const implementations = []; let currentBlock = 0;
\* const latestBlock = await getBlockNumber().
SamplerStarts ==
    /\ spc = "idle"
    /\ \E fails \in BOOLEAN :
         IF fails
         THEN spc' = "thrown" /\ UNCHANGED <<latestBlock, currentBlock, implementations>>
         ELSE /\ spc' = "loop"
              /\ latestBlock' = chainHead
              /\ currentBlock' = 0
              /\ implementations' = <<>>
    /\ UNCHANGED <<version, classifyVars, runVars, inspectVars, helperVars, chainHead, samples>>

\* Mutant: a rejected read ends the scan.
SampleAt_aborts ==
    /\ spc = "loop"
    /\ scanning
    /\ \E read \in SamplerReads :
         LET impl == getImplementationAt(read)
         IN  /\ samples' = Append(samples, <<currentBlock, read>>)
             /\ spc' = IF read = Rejects THEN "thrown" ELSE "loop"
             /\ implementations' =
                   IF impl # <<>>
                   THEN Append(implementations,
                           [blockNumber |-> currentBlock, implementation |-> impl[1]])
                   ELSE implementations
    /\ currentBlock' = currentBlock + Stride
    /\ UNCHANGED <<version, classifyVars, runVars, inspectVars, helperVars, chainHead, latestBlock>>

\* Mutant: a sighting equal to the last one is not pushed again.
SampleAt_dedups ==
    /\ spc = "loop"
    /\ scanning
    /\ \E read \in SamplerReads :
         LET impl == getImplementationAt(read)
             last == implementations[Len(implementations)]
         IN  /\ samples' = Append(samples, <<currentBlock, read>>)
             /\ implementations' =
                   IF impl # <<>>
                      /\ (implementations = <<>> \/ last.implementation # impl[1])
                   THEN Append(implementations,
                           [blockNumber |-> currentBlock, implementation |-> impl[1]])
                   ELSE implementations
    /\ currentBlock' = currentBlock + Stride
    /\ UNCHANGED <<version, classifyVars, runVars, inspectVars, helperVars, chainHead, spc,
                   latestBlock>>

\* One turn of the while loop: the slot is read at currentBlock, a truthy impl
\* is pushed, currentBlock moves on by the stride.
SampleAt ==
    /\ spc = "loop"
    /\ scanning
    /\ \E read \in SamplerReads :
         LET impl == getImplementationAt(read)
         IN  /\ samples' = Append(samples, <<currentBlock, read>>)
             /\ implementations' =
                   IF impl # <<>>
                   THEN Append(implementations,
                           [blockNumber |-> currentBlock, implementation |-> impl[1]])
                   ELSE implementations
    /\ currentBlock' = currentBlock + Stride
    /\ UNCHANGED <<version, classifyVars, runVars, inspectVars, helperVars, chainHead, spc,
                   latestBlock>>

\* The loop is left: this.report.implementationHistory = implementations.
SamplerEnds ==
    /\ spc = "loop"
    /\ ~scanning
    /\ spc' = "done"
    /\ UNCHANGED <<version, classifyVars, runVars, inspectVars, helperVars, chainHead, latestBlock,
                   currentBlock, implementations, samples>>

\* The sampler as phase 4 calls it; the report it reads the victim contract
\* from and writes the array to is the one of Spec.
InitSampler ==
    /\ version = "guarded"
    /\ tx = T1
    /\ abiThrows = FALSE
    /\ analysis = <<>>
    /\ Constructed
    /\ StorageIdle
    /\ HelpersIdle

NextSampler ==
    \/ ChainGrows
    \/ SamplerStarts
    \/ SampleAt
    \/ SamplerEnds

SpecSampler == InitSampler /\ [][NextSampler]_vars

-----------------------------------------------------------------------------
(* getContractState, called on its own *)

\* Highest block number the inspector is asked about.
MaxBlock == 2

\* Words the node answers a getStorageAt call with, or its rejection.
StateReads == {Rejects, ZERO_WORD, IMPL1_WORD, IMPL2_WORD, ADMIN_WORD, PACKED_WORD}

\* getContractState(address, blockNumber): the implementation slot is read,
\* then the admin slot; the second read is not made when the first rejects.
Inspect ==
    /\ \E address \in {VICTIM_CONTRACT, KNOWN_IMPLEMENTATION},
          blockNumber \in 0..MaxBlock,
          implementation \in StateReads :
         \E admin \in IF implementation = Rejects THEN {<<>>} ELSE StateReads :
            /\ inspected' = <<[address |-> address, blockNumber |-> blockNumber,
                               implementation |-> implementation, admin |-> admin]>>
            /\ contractState' = getContractState(implementation, admin)
    /\ UNCHANGED <<version, classifyVars, runVars, samplerVars, helperVars>>

InitInspect ==
    /\ version = "guarded"
    /\ tx = T1
    /\ abiThrows = FALSE
    /\ analysis = <<>>
    /\ Constructed
    /\ StorageIdle
    /\ HelpersIdle

NextInspect == Inspect

SpecInspect == InitInspect /\ [][NextInspect]_vars

-----------------------------------------------------------------------------
(* analyzeTraces, called on its own *)

\* Steps in one list of internal calls.
MaxTraceLen == 2

\* Callers and callees the explorer may name: a contract, an account without
\* bytecode, the zero address and the empty string of a contract creation.
TraceAddresses == {"0xa1", "0xb2", "0xc3", ZERO_ADDRESS, ""}

TraceInputs == {HexPrefix, UPGRADE_TO \o Word}

TraceSteps == [from : TraceAddresses, to : TraceAddresses, input : TraceInputs]

\* getTransactionTraces hands the explorer's list to analyzeTraces, once in a
\* run; the report's relatedContracts is the empty Set of analyzeFromHack then.
AnalyzeTraces ==
    /\ traced = <<>>
    /\ \E n \in 0..MaxTraceLen :
         \E traces \in [1..n -> TraceSteps] :
            traced' = <<[traces |-> traces,
                         outcome |-> analyzeTraces(version, NewSet.Set, traces, <<>>)]>>
    /\ UNCHANGED <<version, classifyVars, runVars, inspectVars, samplerVars, answered,
                   lastSaved, serialized, snapshot, fanoutVars, logsDecoded, victimRun, driverVars>>

InitTraces ==
    /\ version \in Versions
    /\ tx = T1
    /\ abiThrows = FALSE
    /\ analysis = <<>>
    /\ Constructed
    /\ StorageIdle
    /\ HelpersIdle

NextTraces == AnalyzeTraces

SpecTraces == InitTraces /\ [][NextTraces]_vars

-----------------------------------------------------------------------------
(* saveToJson, called on its own *)

\* Labels the sink is called with here: the first checkpoint and the last.
SinkLabels == {"step1", "final"}

\* Reports handed to the sink: the one analyzeFromHack starts from, and one
\* with a related contract.
SinkData ==
    { <<newReport(HACK_TX, VICTIM_CONTRACT, "0xA1")>>,
      <<[newReport(HACK_TX, VICTIM_CONTRACT, "0xA1") EXCEPT
            !.relatedContracts = [Set |-> <<"0xa1">>]]>> }

\* One call saveToJson(`${hackTxHash}_<label>.json`, data), by this run or by
\* a run before it: the files of ./analysis_data outlive the process.
Save ==
    /\ \E label \in SinkLabels, data \in SinkData, fails \in BOOLEAN, t \in ClockReads :
         /\ disk' = saveToJson(disk, <<HACK_TX, label>>, data, t, fails)
         /\ now' = t
         /\ lastSaved' = [lastSaved EXCEPT ![label] = data]
    /\ UNCHANGED <<version, classifyVars, inspectVars, samplerVars, traced, answered,
                   serialized, snapshot, fanoutVars,
                   logsDecoded, victimRun, driverVars, pc, runs, report,
                   processedContracts, contractsToAnalyze, iter, contract, remaining,
                   caught, raised, returned, trail, fetched, discovered, seen,
                   storageReads>>

InitSink ==
    /\ version = "checkpointing"
    /\ tx = T1
    /\ abiThrows = FALSE
    /\ analysis = <<>>
    /\ Constructed
    /\ StorageIdle
    /\ HelpersIdle

NextSink == Save

SpecSink == InitSink /\ [][NextSink]_vars

-----------------------------------------------------------------------------
(* The writers of the report *)

\* JSON values a Set-valued field is written as: an array of its elements, or
\* the empty object JSON.stringify makes of a Set it is given as it is.
JsonArray(items) == [type |-> "array", items |-> items]

JsonEmptyObject == [type |-> "object", items |-> <<>>]

\* The three writers: saveToJson, generateReports of save-utils.js and
\* generateReports of part_002.
Writers == {"saveToJson", "generateReports", "generateReports (part_002)"}

\* What a writer makes of analysis.relatedContracts: saveToJson's replacer and
\* part_002's Array.from give the array, JSON.stringify(jsonReport, null, 2)
\* gives {}.
writeRelatedContracts(writer, relatedContracts) ==
    CASE writer = "saveToJson" ->
            JsonArray(replacer([relatedContracts |-> relatedContracts]).relatedContracts)
      [] writer = "generateReports" -> JsonEmptyObject
      [] writer = "generateReports (part_002)" -> JsonArray(relatedContracts.Set)

\* Insertion-ordered element lists a relatedContracts Set may hold.
RelatedSets ==
    LET contracts == {"0xa1", "0xb2", VICTIM_CONTRACT}
    IN  {<<>>} \cup {<<a>> : a \in contracts}
               \cup {p \in contracts \X contracts : p[1] # p[2]}
               \cup {<<"0xb2", "0xa1", VICTIM_CONTRACT>>}

\* A report is written by one of the writers.
WriteReport ==
    /\ \E writer \in Writers, suspectAddress \in Seeds, related \in RelatedSets :
         LET analyzed == [newReport(HACK_TX, VICTIM_CONTRACT, suspectAddress) EXCEPT
                            !.relatedContracts = [Set |-> related]]
         IN  serialized' = <<[writer |-> writer,
                              analysis |-> analyzed,
                              relatedContracts |->
                                  writeRelatedContracts(writer, analyzed.relatedContracts)]>>
    /\ UNCHANGED <<version, classifyVars, runVars, inspectVars, samplerVars, traced,
                   answered, lastSaved, snapshot, fanoutVars, logsDecoded, victimRun, driverVars>>

InitReport ==
    /\ version = "checkpointing"
    /\ tx = T1
    /\ abiThrows = FALSE
    /\ analysis = <<>>
    /\ Constructed
    /\ StorageIdle
    /\ HelpersIdle

NextReport == WriteReport

SpecReport == InitReport /\ [][NextReport]_vars

-----------------------------------------------------------------------------
(* The explorer client, called on its own *)

\* Mutant: the status of the answer is not looked at.
getContractTransactions_anyStatus(address, data) ==
    IF ~isValidAddress(address) THEN <<>>
    ELSE SelectSeq(data.result, keepsTransaction)

\* getContractTransactions on the explorer's answer data = {status, result}.
getContractTransactions(address, data) ==
    IF ~isValidAddress(address) THEN <<>>
    ELSE IF data.status # "1" THEN <<>>
    ELSE SelectSeq(data.result, keepsTransaction)

\* getTransactionTraces on the explorer's answer; hasResult tells whether
\* data.result is truthy (an array is, also an empty one).
getTransactionTraces(v, data) ==
    IF data.status = "1" /\ data.hasResult
    THEN analyzeTraces(v, NewSet.Set, data.result, <<>>)
    ELSE [throws |-> FALSE, related |-> NewSet.Set, traces |-> <<>>]

\* Entries in one answer of the explorer.
MaxAnswerLen == 2

\* Answers to a txlist request.
TxlistAnswers ==
    [status : {"0", "1"}, hasResult : {TRUE},
     result : UNION {[1..n -> ExplorerTxs] : n \in 0..MaxAnswerLen}]

\* Answers to a txlistinternal request.
TxlistinternalAnswers ==
    [status : {"0", "1"}, hasResult : {TRUE},
     result : {<<>>} \cup {<<step>> : step \in TraceSteps}]
        \cup [status : {"0", "1"}, hasResult : {FALSE}, result : {<<>>}]

\* The explorer answers a txlist request of getContractTransactions.
TxlistAnswered ==
    /\ \E address \in {"0xa1", ZERO_ADDRESS}, data \in TxlistAnswers :
         answered' = <<[call |-> "txlist", data |-> data, throws |-> FALSE,
                        list |-> getContractTransactions(address, data)]>>
    /\ UNCHANGED <<version, classifyVars, runVars, inspectVars, samplerVars, traced,
                   lastSaved, serialized, snapshot, fanoutVars, logsDecoded, victimRun, driverVars>>

\* The explorer answers the txlistinternal request of getTransactionTraces.
TxlistinternalAnswered ==
    /\ \E data \in TxlistinternalAnswers :
         LET outcome == getTransactionTraces(version, data)
         IN  answered' = <<[call |-> "txlistinternal", data |-> data,
                            throws |-> outcome.throws, list |-> outcome.traces]>>
    /\ UNCHANGED <<version, classifyVars, runVars, inspectVars, samplerVars, traced,
                   lastSaved, serialized, snapshot, fanoutVars, logsDecoded, victimRun, driverVars>>

InitExplorer ==
    /\ version \in Versions
    /\ tx = T1
    /\ abiThrows = FALSE
    /\ analysis = <<>>
    /\ Constructed
    /\ StorageIdle
    /\ HelpersIdle

NextExplorer ==
    \/ TxlistAnswered
    \/ TxlistinternalAnswered

SpecExplorer == InitExplorer /\ [][NextExplorer]_vars

-----------------------------------------------------------------------------
(* The snapshots around the seed transaction *)

\* Highest block the seed transaction may be in.
MaxSeedBlock == 3

\* Words the implementation slot of the victim contract may hold at a block.
SlotWords == {IMPL1_WORD, IMPL2_WORD, PACKED_WORD}

\* Mutant: both snapshots are read at the block of the transaction.
snapshotBlocks_same(blockNumber) == [before |-> blockNumber, after |-> blockNumber]

\* analyzeHackTransaction: the blocks stateChangesBefore and stateChangesAfter
\* are read at.
snapshotBlocks(blockNumber) == [before |-> blockNumber - 1, after |-> blockNumber]

\* displayResults: the condition of the implementation-change warning.
implementationChanged(stateChanges) ==
    stateChanges.before.implementation # stateChanges.after.implementation

\* The two getContractState calls of analyzeHackTransaction on a ledger whose
\* implementation slot holds slot[b] at block b, and the warning displayResults
\* shows for the stateChanges stored.
SeedSnapshot ==
    /\ \E blockNumber \in 1..MaxSeedBlock, slot \in [0..MaxSeedBlock -> SlotWords] :
         LET at == snapshotBlocks(blockNumber)
             stateChanges ==
                 [before |-> getContractState(slot[at.before], ADMIN_WORD)[1],
                  after |-> getContractState(slot[at.after], ADMIN_WORD)[1]]
         IN  snapshot' = <<[blockNumber |-> blockNumber, slot |-> slot,
                            stateChanges |-> stateChanges,
                            signal |-> implementationChanged(stateChanges)]>>
    /\ UNCHANGED <<version, classifyVars, runVars, inspectVars, samplerVars, traced,
                   answered, lastSaved, serialized, fanoutVars, logsDecoded, victimRun, driverVars>>

InitSnapshot ==
    /\ version = "guarded"
    /\ tx = T1
    /\ abiThrows = FALSE
    /\ analysis = <<>>
    /\ Constructed
    /\ StorageIdle
    /\ HelpersIdle

NextSnapshot == SeedSnapshot

SpecSnapshot == InitSnapshot /\ [][NextSnapshot]_vars

-----------------------------------------------------------------------------
(* The awaits of a run, and the calls in flight *)

\* Entries of one list: logs of the receipt, trace steps, history entries,
\* sampled heights.
MaxFanout == 3

\* The awaits of analyzeFromHack in program order.  "call": one ledger or
\* explorer call is awaited.  "loop": a for or while loop awaits one call per
\* turn.  "sync": Promise.all over callbacks without an await (decodeLogs).
\* "async": Promise.all over analyzeSingleTransaction, which awaits the local
\* decodeTransactionInput when the input holds a selector.
Awaits ==
    << [name |-> "getTransaction", kind |-> "call"],
       [name |-> "getTransactionReceipt", kind |-> "call"],
       [name |-> "decodeLogs", kind |-> "sync"],
       [name |-> "txlistinternal", kind |-> "call"],
       [name |-> "analyzeTraces: getCode", kind |-> "loop"],
       [name |-> "getContractState: getStorageAt", kind |-> "loop"],
       [name |-> "analyzeVictimContract: getCode", kind |-> "call"],
       [name |-> "analyzeVictimContract: txlist", kind |-> "call"],
       [name |-> "analyzeVictimContract: analyzeSingleTransaction", kind |-> "async"],
       [name |-> "traceContractCalls: txlist, getCode", kind |-> "loop"],
       [name |-> "getBlockNumber", kind |-> "call"],
       [name |-> "getImplementationAt: getStorageAt", kind |-> "loop"] >>

\* The kind of the await the run stands at.
kindAt(position) ==
    IF position[1] \in 1..Len(Awaits) THEN Awaits[position[1]].kind ELSE "none"

\* analyzeFromHack is called.
RunStarts ==
    /\ fpc = <<0, "idle">>
    /\ fpc' = <<1, "before">>
    /\ UNCHANGED <<version, classifyVars, runVars, inspectVars, samplerVars, traced,
                   answered, lastSaved, serialized, snapshot,
                   logsDecoded, victimRun, driverVars, inflight, callbacks>>

\* A loop is entered: it has n turns to make.
LoopEntered ==
    /\ fpc[2] = "before"
    /\ kindAt(fpc) = "loop"
    /\ \E n \in 0..MaxFanout : callbacks' = [i \in 1..n |-> "pending"]
    /\ fpc' = <<fpc[1], "looping">>
    /\ UNCHANGED <<version, classifyVars, runVars, inspectVars, samplerVars, traced,
                   answered, lastSaved, serialized, snapshot,
                   logsDecoded, victimRun, driverVars, inflight>>

\* The run sends a request and awaits the response: a single call, or the
\* call of the next turn of a loop.
CallIssued ==
    /\ \/ fpc[2] = "before" /\ kindAt(fpc) = "call"
       \/ fpc[2] = "looping" /\ callbacks # <<>>
    /\ inflight' = inflight + 1
    /\ fpc' = <<fpc[1], "awaiting">>
    /\ UNCHANGED <<version, classifyVars, runVars, inspectVars, samplerVars, traced,
                   answered, lastSaved, serialized, snapshot,
                   logsDecoded, victimRun, driverVars, callbacks>>

\* The response arrives and the run resumes after the await; a rejection
\* leaves the try block.
CallAnswered ==
    /\ fpc[2] = "awaiting"
    /\ inflight' = inflight - 1
    /\ \E rejects \in BOOLEAN :
         IF rejects
         THEN fpc' = <<fpc[1], "thrown">> /\ callbacks' = <<>>
         ELSE IF kindAt(fpc) = "loop"
         THEN fpc' = <<fpc[1], "looping">> /\ callbacks' = Tail(callbacks)
         ELSE fpc' = <<fpc[1] + 1, "before">> /\ callbacks' = callbacks
    /\ UNCHANGED <<version, classifyVars, runVars, inspectVars, samplerVars, traced,
                   answered, lastSaved, serialized, snapshot, logsDecoded, victimRun, driverVars>>

\* The loop has no turn left.
LoopLeft ==
    /\ fpc[2] = "looping"
    /\ callbacks = <<>>
    /\ fpc' = <<fpc[1] + 1, "before">>
    /\ UNCHANGED <<version, classifyVars, runVars, inspectVars, samplerVars, traced,
                   answered, lastSaved, serialized, snapshot,
                   logsDecoded, victimRun, driverVars, inflight, callbacks>>

\* Mutant: every callback asks the ledger before its first await.
FanOut_asking ==
    /\ fpc[2] = "before"
    /\ kindAt(fpc) \in {"sync", "async"}
    /\ \E n \in 0..MaxFanout :
         /\ callbacks' \in [1..n -> IF kindAt(fpc) = "sync" THEN {"done"}
                                      ELSE {"decoding", "done"}]
         /\ inflight' = inflight + n
    /\ fpc' = <<fpc[1], "fanned">>
    /\ UNCHANGED <<version, classifyVars, runVars, inspectVars, samplerVars, traced,
                   answered, lastSaved, serialized, snapshot, logsDecoded, victimRun, driverVars>>

\* list.map(callback) inside Promise.all: every callback runs, one after the
\* other, up to its first await.  A decodeLogs callback has none and is done;
\* analyzeSingleTransaction is done at once for an input without a selector
\* and else stands at `await this.decodeTransactionInput(tx.input)`, which
\* calls nothing outside the process.
FanOut ==
    /\ fpc[2] = "before"
    /\ kindAt(fpc) \in {"sync", "async"}
    /\ \E n \in 0..MaxFanout :
         /\ callbacks' \in [1..n -> IF kindAt(fpc) = "sync" THEN {"done"}
                                      ELSE {"decoding", "done"}]
         /\ inflight' = inflight
    /\ fpc' = <<fpc[1], "fanned">>
    /\ UNCHANGED <<version, classifyVars, runVars, inspectVars, samplerVars, traced,
                   answered, lastSaved, serialized, snapshot, logsDecoded, victimRun, driverVars>>

\* A callback resumes after its await and returns its analysis, which holds
\* the decoded input.
CallbackResumes ==
    /\ fpc[2] = "fanned"
    /\ \E i \in 1..Len(callbacks) :
         /\ callbacks[i] = "decoding"
         /\ callbacks' = [callbacks EXCEPT ![i] = "decoded"]
    /\ UNCHANGED <<version, classifyVars, runVars, inspectVars, samplerVars, traced,
                   answered, lastSaved, serialized, snapshot,
                   logsDecoded, victimRun, driverVars, inflight, fpc>>

\* Every callback is done: the Promise.all resolves and the run resumes.
FanIn ==
    /\ fpc[2] = "fanned"
    /\ \A i \in 1..Len(callbacks) : callbacks[i] \in {"done", "decoded"}
    /\ callbacks' = <<>>
    /\ fpc' = <<fpc[1] + 1, "before">>
    /\ UNCHANGED <<version, classifyVars, runVars, inspectVars, samplerVars, traced,
                   answered, lastSaved, serialized, snapshot,
                   logsDecoded, victimRun, driverVars, inflight>>

InitCalls ==
    /\ version \in Versions
    /\ tx = T1
    /\ abiThrows = FALSE
    /\ analysis = <<>>
    /\ Constructed
    /\ StorageIdle
    /\ HelpersIdle

NextCalls ==
    \/ RunStarts
    \/ LoopEntered
    \/ CallIssued
    \/ CallAnswered
    \/ LoopLeft
    \/ FanOut
    \/ CallbackResumes
    \/ FanIn

SpecCalls == InitCalls /\ [][NextCalls]_vars

-----------------------------------------------------------------------------
(* Log decoder *)

\* this.EVENT_SIGNATURES: topic 0 of the two proxy events.
IMPLEMENTATION_CHANGED == "0xbc7cd75a"
ADMIN_CHANGED          == "0x7e644d02"

\* Topic 0 of an event the analyzer has no signature for (ERC-20 Transfer).
TRANSFER_EVENT == "0xddf252ad"

\* An indexed address: '0x' and one 32-byte word.
TopicWord == HexPrefix \o Word

\* Characters of the 0x-prefix in front of the 24 padding digits of a topic.
TopicPad == 26

\* String(undefined), what '0x' + undefined?.slice(26) appends.
UndefinedText == <<"u","n","d","e","f","i","n","e","d">>

\* The null a callback of decodeLogs returns for a log it drops.
NullLog == [type |-> "null"]

\* decodeParameters(['address', 'address'], data) throws on data shorter than
\* the two words it reads.
decodeParametersThrows(data) == Len(data) < Len(HexPrefix) + 2 * WordLen

\* One callback of decodeLogs: null for a log without a first topic; the
\* decoded entry otherwise.  decodedLog starts as null and the inner catch of
\* the ADMIN_CHANGED branch only warns, so a failed decodeParameters returns
\* that null.
decodeLog(log) ==
    IF log.topics = <<>> \/ log.topics[1] = ""
    THEN NullLog
    ELSE
      LET signature == log.topics[1]
      IN  IF signature = IMPLEMENTATION_CHANGED
          THEN [type |-> "implementation_change",
                newImplementation |->
                    HexPrefix \o (IF Len(log.topics) >= 2
                                  THEN sliceFrom(log.topics[2], TopicPad)
                                  ELSE UndefinedText),
                transactionHash |-> log.transactionHash]
          ELSE IF signature = ADMIN_CHANGED
          THEN IF decodeParametersThrows(log.data)
               THEN NullLog
               ELSE [type |-> "admin_change",
                     previousAdmin |->
                         slice(log.data, Len(HexPrefix), Len(HexPrefix) + WordLen),
                     newAdmin |-> sliceFrom(log.data, Len(HexPrefix) + WordLen),
                     transactionHash |-> log.transactionHash]
          ELSE [type |-> "unknown", signature |-> signature, data |-> log.data,
                topics |-> log.topics, transactionHash |-> log.transactionHash]

\* decodeLogs: Promise.all keeps the callbacks' results in the order of the
\* logs, and the filter drops the nulls.
decodeLogs(logs) ==
    LET decodedLogs == [i \in 1..Len(logs) |-> decodeLog(logs[i])]
    IN  SelectSeq(decodedLogs, LAMBDA log : log # NullLog)

\* Logs in one receipt.
MaxLogs == 2

\* The topics and the data a log of the receipt may carry.
LogTopics == {<<>>, <<"">>, <<IMPLEMENTATION_CHANGED, TopicWord>>,
              <<IMPLEMENTATION_CHANGED>>, <<ADMIN_CHANGED>>, <<TRANSFER_EVENT>>}

LogData == {HexPrefix, HexPrefix \o Word \o Word}

\* The receipt's logs: the i-th log carries the i-th hash.
ReceiptLogs ==
    UNION {{[i \in 1..n |-> [topics |-> shape[i][1], data |-> shape[i][2],
                             transactionHash |-> i]] :
               shape \in [1..n -> LogTopics \X LogData]} : n \in 0..MaxLogs}

\* analyzeHackTransaction decodes the logs of the receipt.
DecodeLogs ==
    /\ logsDecoded = <<>>
    /\ \E logs \in ReceiptLogs :
         logsDecoded' = <<[logs |-> logs, decoded |-> decodeLogs(logs)]>>
    /\ UNCHANGED <<version, classifyVars, runVars, inspectVars, samplerVars, traced,
                   answered, lastSaved, serialized, snapshot, fanoutVars, victimRun,
                   driverVars>>

InitLogs ==
    /\ version \in Versions
    /\ tx = T1
    /\ abiThrows = FALSE
    /\ analysis = <<>>
    /\ Constructed
    /\ StorageIdle
    /\ HelpersIdle

NextLogs == DecodeLogs

SpecLogs == InitLogs /\ [][NextLogs]_vars

-----------------------------------------------------------------------------
(* Endpoint failover of analyze_hack.js *)

\* RPC_NODES, with POLYGON_RPC unset.
RPC_NODES == <<"https://polygon-rpc.com",
               "https://rpc-mainnet.maticvigil.com",
               "https://polygon-rpc.com">>

\* The suspect main passes to analyzeFromHack: a mixed-case address literal.
HACKER_ADDRESS == "0xA1"

\* Mutant: the instance is shared by the attempts.
SmartContractAnalyzer_shared(rpcUrl) ==
    [rpcUrl |-> rpcUrl, processedContracts |-> processedContracts, report |-> report]

\* new SmartContractAnalyzer(rpcUrl, key): an empty processedContracts and
\* no report.
SmartContractAnalyzer(rpcUrl) ==
    [rpcUrl |-> rpcUrl, processedContracts |-> {}, report |-> <<>>]

\* Mutant: the error of the first endpoint is rethrown.
rethrows_first(i) == i = 1

\* The catch block of attempt i (counted from 1) rethrows: i - 1 is
\* RPC_NODES.length - 1.
rethrows(i) == i = Len(RPC_NODES)

\* What the catch block of attempt `rpc` has seen.
Failed ==
    [url |-> RPC_NODES[rpc], error |-> raised[1], processed |-> processedContracts]

\* One iteration of the loop of tryWithDifferentRPC starts: the first, or the
\* next after a catch block that did not rethrow.  It constructs an analyzer
\* for the endpoint and calls analysisFunction, which calls analyzeFromHack.
TryEndpoint ==
    /\ settled = <<>>
    /\ rpc < Len(RPC_NODES)
    /\ \/ rpc = 0 /\ pc = "idle"
       \/ rpc >= 1 /\ pc = "thrown" /\ ~rethrows(rpc)
    /\ rpc' = rpc + 1
    /\ attempts' = IF rpc = 0 THEN attempts ELSE Append(attempts, Failed)
    /\ LET analyzer == SmartContractAnalyzer(RPC_NODES[rpc + 1])
       IN  processedContracts' = analyzer.processedContracts
    /\ report' = <<newReport(HACK_TX, VICTIM_CONTRACT, HACKER_ADDRESS)>>
    /\ runs' = 1
    /\ pc' = "phase1"
    /\ caught' = <<>>
    /\ raised' = <<>>
    /\ returned' = <<>>
    /\ trail' = <<>>
    /\ contractsToAnalyze' = <<>>
    /\ iter' = 0
    /\ contract' = ""
    /\ remaining' = 0
    /\ fetched' = <<>>
    /\ seen' = <<>>
    /\ discovered' = {}
    /\ storageReads' = <<>>
    /\ UNCHANGED <<version, classifyVars, inspectVars, samplerVars, traced, answered,
                   lastSaved, serialized, snapshot, fanoutVars, logsDecoded, victimRun,
                   settled, disk, now>>

\* return await analysisFunction(analyzer): the attempt returned its report.
FailoverReturns ==
    /\ settled = <<>>
    /\ rpc >= 1
    /\ pc = "returned"
    /\ settled' = <<[kind |-> "returned", result |-> returned, error |-> <<>>]>>
    /\ UNCHANGED <<version, classifyVars, runVars, inspectVars, samplerVars, traced,
                   answered, lastSaved, serialized, snapshot, fanoutVars, logsDecoded,
                   victimRun, rpc, attempts>>

\* The catch block of the last attempt rethrows the error it caught.
FailoverThrows ==
    /\ settled = <<>>
    /\ rpc >= 1
    /\ pc = "thrown"
    /\ rethrows(rpc)
    /\ attempts' = Append(attempts, Failed)
    /\ settled' = <<[kind |-> "threw", result |-> <<>>, error |-> raised]>>
    /\ UNCHANGED <<version, classifyVars, runVars, inspectVars, samplerVars, traced,
                   answered, lastSaved, serialized, snapshot, fanoutVars, logsDecoded,
                   victimRun, rpc>>

\* History entries an attempt reads from the explorer.
MaxTxFailover == 1
MaxSeenFailover == 1

CrawlFetchesFailover == Fetch(MaxTxFailover, MaxSeenFailover)

InitFailover ==
    /\ version = "guarded"
    /\ tx = T1
    /\ abiThrows = FALSE
    /\ analysis = <<>>
    /\ Constructed
    /\ StorageIdle
    /\ HelpersIdle

\* The skip branch of the crawl's loop is never taken here: the seed is valid
\* and the instance of an attempt has processed nothing when its crawl starts.
NextFailover ==
    \/ TryEndpoint
    \/ analyzeHackTransaction
    \/ analyzeVictimContract
    \/ traceContractCalls
    \/ CrawlEnds
    \/ CrawlFetchesFailover
    \/ HistoryEnds
    \/ CrawlTx
    \/ analyzeImplementationHistory
    \/ Catch
    \/ FailoverReturns
    \/ FailoverThrows

\* main's call of tryWithDifferentRPC, with the analyzer analyze_hack.js
\* imports (smart-contract-analyzer.js).
SpecFailover == InitFailover /\ [][NextFailover]_vars

-----------------------------------------------------------------------------
(* Fan-out of the victim analysis *)

\* The slot of a Promise.all result no callback has filled yet.
PendingSlot == [hash |-> "pending", suspicious |-> FALSE]

\* The callbacks settle in the order `order`; each stores its result in the
\* slot of its own index.
RECURSIVE settle(_, _, _)
settle(results, order, values) ==
    IF order = <<>> THEN values
    ELSE settle(results, Tail(order),
                [values EXCEPT ![Head(order)] = results[Head(order)]])

\* Mutant: the results are collected in the order the callbacks settle.
promiseAll_bySettlement(results, order) ==
    [k \in 1..Len(order) |-> results[order[k]]]

\* Promise.all(promises) when every promise fulfils: the array of the
\* results, by index.
promiseAll(results, order) ==
    settle(results, order, [i \in 1..Len(results) |-> PendingSlot])

\* victimAnalysis.transactions for the list getContractTransactions returned.
victimTransactions(v, transactions, order) ==
    LET analyzedTxs ==
            promiseAll([i \in 1..Len(transactions) |->
                           analyzeSingleTransaction(v, transactions[i],
                                                    DecodeThrows(transactions[i]))],
                       order)
    IN  SelectSeq(analyzedTxs, LAMBDA a : a.suspicious)

\* Entries the explorer lists for the victim contract.
MaxHistory == 3

Histories == UNION {[1..n -> ExplorerTxs] : n \in 0..MaxHistory}

\* The orders in which n callbacks may settle.
SettleOrders(n) == {o \in [1..n -> 1..n] : \A i, j \in 1..n : i # j => o[i] # o[j]}

\* analyzeVictimContract, from the explorer's answer on.
AnalyzeVictim ==
    /\ victimRun = <<>>
    /\ \E status \in {"0", "1"}, history \in Histories :
         LET transactions ==
                 getContractTransactions(VICTIM_CONTRACT,
                     [status |-> status, hasResult |-> TRUE, result |-> history])
         IN  \E order \in SettleOrders(Len(transactions)) :
               victimRun' = <<[status |-> status, history |-> history, order |-> order,
                               transactions |->
                                   victimTransactions(version, transactions, order)]>>
    /\ UNCHANGED <<version, classifyVars, runVars, inspectVars, samplerVars, traced,
                   answered, lastSaved, serialized, snapshot, fanoutVars, logsDecoded,
                   driverVars>>

InitVictim ==
    /\ version \in Versions
    /\ tx = T1
    /\ abiThrows = FALSE
    /\ analysis = <<>>
    /\ Constructed
    /\ StorageIdle
    /\ HelpersIdle

NextVictim == AnalyzeVictim

SpecVictim == InitVictim /\ [][NextVictim]_vars

-----------------------------------------------------------------------------
(* Properties of the classifier *)

LeadingSelector == SubSeq(tx.input, 1, SelectorLen)

HoldsSelector == Truthy(tx.input) /\ Len(tx.input) >= SelectorLen

CriticalSelectors == {UPGRADE_TO, UPGRADE_TO_AND_CALL, CHANGE_ADMIN}

MethodNames == {"UPGRADE_TO", "UPGRADE_TO_AND_CALL", "CHANGE_ADMIN", "INITIALIZE"}

SelectorName(sel) ==
    CASE sel = UPGRADE_TO -> "UPGRADE_TO"
      [] sel = UPGRADE_TO_AND_CALL -> "UPGRADE_TO_AND_CALL"
      [] sel = CHANGE_ADMIN -> "CHANGE_ADMIN"
      [] sel = INITIALIZE -> "INITIALIZE"
      [] OTHER -> "unknown"

\* C6: for a transaction whose input holds at least one selector, suspicious is
\* true exactly when the leading selector is UPGRADE_TO, UPGRADE_TO_AND_CALL or
\* CHANGE_ADMIN, and then reason is exactly <<"suspicious_signature">>; for
\* INITIALIZE and every unknown selector suspicious is false and reason empty.
C6_SuspiciousIffCriticalSelector ==
    (analysis # <<>> /\ HoldsSelector) =>
        IF LeadingSelector \in CriticalSelectors
        THEN analysis[1].suspicious /\ analysis[1].reason = <<"suspicious_signature">>
        ELSE ~analysis[1].suspicious /\ analysis[1].reason = <<>>

C6_Witness ==
    /\ analysis # <<>>
    /\ HoldsSelector
    /\ LeadingSelector = UPGRADE_TO_AND_CALL
    /\ analysis[1].suspicious
    /\ analysis[1].reason = <<"suspicious_signature">>

\* C7: the decoded method is always one of the four known names or "unknown",
\* and classifying the same input again gives the same suspicious flag whether
\* parameter decoding throws or not.
C7_ClassificationTotal ==
    /\ [](analysis # <<>> /\ HoldsSelector =>
            analysis[1].decodedInput.method \in MethodNames \cup {"unknown"})
    /\ [][(analysis # <<>> /\ tx'.input = tx.input) =>
            analysis'[1].suspicious = analysis[1].suspicious]_classifyVars

C7_Witness ==
    /\ analysis # <<>>
    /\ abiThrows
    /\ HoldsSelector
    /\ LeadingSelector = CHANGE_ADMIN
    /\ analysis[1].suspicious

DecodeFailed ==
    /\ analysis # <<>>
    /\ HoldsSelector
    /\ abiThrows
    /\ LeadingSelector \in {UPGRADE_TO, UPGRADE_TO_AND_CALL, CHANGE_ADMIN}

C9_ShortInputNotDecoded ==
    (analysis # <<>> /\ ~HoldsSelector) =>
        /\ ~analysis[1].suspicious
        /\ analysis[1].reason = <<>>
        /\ "decodedInput" \notin DOMAIN analysis[1]

C9_Witness ==
    /\ analysis # <<>>
    /\ tx.input = SubSeq(UPGRADE_TO, 1, 9)
    /\ ~analysis[1].suspicious
    /\ "decodedInput" \notin DOMAIN analysis[1]

-----------------------------------------------------------------------------
(* Properties of the crawl and of analyzeFromHack *)

InCrawl == pc \in {"crawl", "crawlTx"}

\* Elements of the Set the for-of iterator has not yielded yet.
Pending == {contractsToAnalyze[i] : i \in (iter + 1)..Len(contractsToAnalyze)}

\* C1: during a crawl each distinct address has its history fetched at most
\* once, and processed holds at most one entry per distinct address.
C1_ProcessedAtMostOnce ==
    /\ \A i, j \in 1..Len(fetched) :
          i # j => Account(fetched[i]) # Account(fetched[j])
    /\ \A a, b \in processedContracts : a # b => Account(a) # Account(b)

\* C2: in every state of a crawl no address is both pending and processed, and
\* no address enters pending twice.
C2_FrontierInvariant ==
    InCrawl =>
        /\ \A p \in Pending, q \in processedContracts : Account(p) # Account(q)
        /\ \A i, j \in 1..Len(contractsToAnalyze) :
              i # j => Account(contractsToAnalyze[i]) # Account(contractsToAnalyze[j])

\* C3: every crawl starts from pending = {startAddress} and processed = {}.
C3_CrawlStartsFromSeed ==
    (pc = "crawl" /\ iter = 0) =>
        /\ contractsToAnalyze = <<report[1].suspectAddress>>
        /\ processedContracts = {}

OnDisk(label) == \E f \in disk : f.name[1] = <<HACK_TX, label>>

Canonical == <<"phase1", "step1", "phase2", "step2", "phase3", "step3", "phase4", "final">>

IsPrefix(p, q) == Len(p) <= Len(q) /\ SubSeq(q, 1, Len(p)) = p

InTrail(e) == \E i \in 1..Len(trail) : trail[i] = e

\* The trail without the save of the catch block.
TryTrail ==
    IF trail # <<>> /\ trail[Len(trail)] = "error"
    THEN SubSeq(trail, 1, Len(trail) - 1) ELSE trail

C5_ErrorCheckpointAndRethrow ==
    pc = "thrown" =>
        /\ \E f \in disk : f.name[1] = <<HACK_TX, "error">> /\ f.data = stringify(report)
        /\ raised = caught
        /\ returned = <<>>
        /\ ~InTrail("final")

\* C10: when a crawl from a valid seed ends, every recipient that passed the
\* bytecode check in the history of a processed address is itself processed.
C10_CrawlComplete ==
    (pc = "phase4" /\ ~InTrail("phase4") /\ isValidAddress(report[1].suspectAddress)) =>
        discovered \subseteq processedContracts

\* C11: a crawl whose external calls all settle comes to an end; it ends
\* normally only when nothing is pending, and when nothing is pending it ends.
C11_CrawlTerminates ==
    /\ InCrawl ~> ~InCrawl
    /\ [][(InCrawl /\ pc' = afterPhase(version, "phase3")) =>
              (pc = "crawl" /\ Pending = {})]_vars
    /\ [][(pc = "crawl" /\ Pending = {}) => pc' = afterPhase(version, "phase3")]_vars

C11_Witness ==
    /\ pc = "phase4"
    /\ ~InTrail("phase4")
    /\ Len(fetched) >= 2
    /\ Len(seen) >= 2
    /\ Pending = {}

\* The crawl of this run has ended normally and phase 4 has not started.
CrawlDone == pc = afterPhase(version, "phase3") /\ InTrail("phase3")

\* C12: when the explorer lists no transaction for the seed, the crawl ends
\* after one iteration with processed = {seed} and no suspicious action.
C12_SeedWithoutTransactions ==
    (CrawlDone /\ fetched = <<report[1].suspectAddress>> /\ seen = <<>>) =>
        /\ iter = 1
        /\ processedContracts = {report[1].suspectAddress}
        /\ report[1].suspiciousActions = <<>>

\* Addresses the Address Validator rejects: malformed, or all zero.
Rejected(a) == a \in Malformed \/ a = ZERO_ADDRESS

\* C13: a popped address the validator rejects is never marked processed, its
\* history is never fetched, and the loop goes on to its next element.
C13_RejectedAddressDiscarded ==
    /\ [](\A a \in processedContracts : ~Rejected(a))
    /\ [](\A i \in 1..Len(fetched) : ~Rejected(fetched[i]))
    /\ [][(pc = "crawl" /\ Pending # {} /\ Rejected(contractsToAnalyze[iter + 1])) =>
              /\ pc' = "crawl"
              /\ iter' = iter + 1
              /\ UNCHANGED <<processedContracts, fetched, seen, report, caught>>]_vars

C13_Witness ==
    /\ CrawlDone
    /\ Rejected(report[1].suspectAddress)
    /\ contractsToAnalyze = <<report[1].suspectAddress>>
    /\ iter = 1
    /\ processedContracts = {}
    /\ caught = <<>>

\* A visited history entry that calls one of the critical selectors.
SuspiciousEntry(e) ==
    /\ Len(e[2].input) >= SelectorLen
    /\ SubSeq(e[2].input, 1, SelectorLen) \in CriticalSelectors

\* The visited entries that are suspicious, in the order of the visits.
SuspiciousSeen == SelectSeq(seen, SuspiciousEntry)

\* Position of the first insertion of address a into the Set.
InsertedAt(a) == CHOOSE i \in 1..Len(contractsToAnalyze) : contractsToAnalyze[i] = a

\* C14: suspiciousActions lists the suspicious entries in the order the
\* histories were read; the entries of one address are contiguous; the
\* addresses follow each other in the order of their first insertion.
C14_SuspiciousActionsOrder ==
    (InCrawl \/ CrawlDone) =>
        /\ Len(report[1].suspiciousActions) = Len(SuspiciousSeen)
        /\ \A i \in 1..Len(SuspiciousSeen) :
              report[1].suspiciousActions[i].hash = SuspiciousSeen[i][2].hash
        /\ \A i, j, k \in 1..Len(SuspiciousSeen) :
              (i < j /\ j < k
                 /\ Account(SuspiciousSeen[i][1]) = Account(SuspiciousSeen[k][1]))
              => Account(SuspiciousSeen[j][1]) = Account(SuspiciousSeen[i][1])
        /\ \A i, j \in 1..Len(fetched) :
              i < j => InsertedAt(fetched[i]) < InsertedAt(fetched[j])

-----------------------------------------------------------------------------
(* Properties of the history sampler *)

\* Heights at which the sampler has read the slot, in the order of the reads.
HeightsRead == [i \in 1..Len(samples) |-> samples[i][1]]

\* Samples a scan below the head it read takes: ceil(latestBlock / 1000).
SamplesDue == (latestBlock + 999) \div 1000

LastReadRejected == samples # <<>> /\ samples[Len(samples)][2] = Rejects

NonZeroRead(i) == samples[i][2] # Rejects /\ samples[i][2] # ZERO_WORD

\* Heights of the sightings, in the order of the array.
SightedHeights == [i \in 1..Len(implementations) |-> implementations[i].blockNumber]

\* C17: the sampler appends a sighting exactly when the read at that height
\* is non-zero; no sighting holds the all-zero address, also when the read
\* returns a 32-byte word of zeros.
C17_NoZeroSighting ==
    spc \in {"loop", "done"} =>
        /\ \A i \in 1..Len(implementations) :
              implementations[i].implementation # ZERO_ADDRESS
        /\ \A i \in 1..Len(samples) :
              NonZeroRead(i) <=> \E j \in 1..Len(implementations) :
                                    SightedHeights[j] = samples[i][1]

\* C18: implementationHistory is strictly increasing in blockNumber, every
\* blockNumber is a sampled height (a multiple of 1000 below the head), and a
\* sighting equal to the one before it is listed again, not merged.
C18_HistoryIncreasingNoDedup ==
    spc \in {"loop", "done"} =>
        /\ \A i, j \in 1..Len(implementations) :
              i < j => SightedHeights[i] < SightedHeights[j]
        /\ \A i \in 1..Len(implementations) :
              /\ SightedHeights[i] % 1000 = 0
              /\ SightedHeights[i] < latestBlock
        /\ \A i \in 1..Len(samples) :
              NonZeroRead(i) =>
                  \E j \in 1..Len(implementations) :
                      /\ SightedHeights[j] = samples[i][1]
                      /\ implementations[j].implementation = normalizeAddress(samples[i][2])

C18_Witness ==
    /\ spc = "done"
    /\ Len(implementations) = 3
    /\ implementations[1].implementation = implementations[2].implementation
    /\ implementations[2].implementation # implementations[3].implementation
    /\ SightedHeights = <<0, 1000, 2000>>

-----------------------------------------------------------------------------
(* Properties of the state inspector *)

\* The 20 low-order bytes of a 32-byte word: its last 40 of 64 hex digits.
LowOrder20(word) == HexPrefix \o SubSeq(word, 27, 66)

\* Both reads of the inspected call were answered.
BothAnswered ==
    /\ inspected # <<>>
    /\ inspected[1].implementation # Rejects
    /\ inspected[1].admin \notin {Rejects, <<>>}

\* C19: getContractState decodes each slot word to the address of its 20
\* low-order bytes; a word of 32 zero bytes decodes to the zero address, as a
\* normal result and not as an error.
C19_StateDecodesLowOrderBytes ==
    BothAnswered =>
        /\ contractState # <<>>
        /\ contractState[1].implementation =
              toChecksumAddress(LowOrder20(inspected[1].implementation))
        /\ contractState[1].admin = toChecksumAddress(LowOrder20(inspected[1].admin))
        /\ inspected[1].implementation = ZERO_WORD =>
              contractState[1].implementation = ZERO_ADDRESS
        /\ inspected[1].admin = ZERO_WORD => contractState[1].admin = ZERO_ADDRESS
        /\ inspected[1].implementation = PACKED_WORD =>
              contractState[1].implementation = KNOWN_IMPLEMENTATION

C19_Witness ==
    /\ BothAnswered
    /\ inspected[1].implementation = PACKED_WORD
    /\ inspected[1].admin = ZERO_WORD
    /\ contractState = <<[implementation |-> KNOWN_IMPLEMENTATION, admin |-> ZERO_ADDRESS]>>

\* A getStorageAt call of phase 1 was rejected in this run.
StorageReadRejected == \E i \in 1..Len(storageReads) : storageReads[i] = "rejected"

\* C20: a failure of a storage read of getContractState, for the block before
\* the seed transaction or for its own block, is not swallowed: it leaves
\* phase 1, hackDetails stays unset, no later phase runs and analyzeFromHack
\* rethrows it from its catch block without returning a report.
C20_StorageFailureAbortsRun ==
    StorageReadRejected =>
        /\ pc \in {"catch", "thrown"}
        /\ caught = <<"getStorageAt failed">>
        /\ report[1].hackDetails = <<>>
        /\ returned = <<>>
        /\ ~InTrail("phase2")
        /\ pc = "thrown" => raised = caught

C20_Witness ==
    /\ pc = "thrown"
    /\ storageReads = <<"answered", "answered", "answered", "rejected">>
    /\ raised = <<"getStorageAt failed">>
    /\ report[1].hackDetails = <<>>

-----------------------------------------------------------------------------
(* Properties of the trace analyzer *)

\* The address has bytecode on the ledger.
IsContractAddress(a) == isAddress(a) /\ HasCode(a)

\* The type the two bytecode facts of a step call for.
TypeByCode(step) ==
    CASE IsContractAddress(step.from) /\ IsContractAddress(step.to) -> "contract-to-contract"
      [] IsContractAddress(step.from) /\ ~IsContractAddress(step.to) -> "contract-to-eoa"
      [] ~IsContractAddress(step.from) /\ IsContractAddress(step.to) -> "eoa-to-contract"
      [] OTHER -> "eoa-to-eoa"

\* The elements of a Set kept as its insertion-ordered list.
Elements(items) == {items[i] : i \in 1..Len(items)}

\* The from and to addresses of the steps that are contracts.
ContractEnds(traces) ==
    {a \in {traces[i].from : i \in 1..Len(traces)} \cup {traces[i].to : i \in 1..Len(traces)} :
        IsContractAddress(a)}

\* C21: analyzeTraces gives every trace step the one type, out of the four,
\* that its two bytecode checks call for, and adds to relatedContracts exactly
\* the from and to addresses whose bytecode check was true: relatedContracts
\* never holds an address that is not a contract.
C21_TraceTypesAndRelatedContracts ==
    traced # <<>> =>
        LET traces == traced[1].traces
            outcome == traced[1].outcome
        IN  /\ \A a \in Elements(outcome.related) : IsContractAddress(a)
            /\ ~outcome.throws =>
                  /\ Len(outcome.traces) = Len(traces)
                  /\ \A i \in 1..Len(traces) : outcome.traces[i].type = TypeByCode(traces[i])
                  /\ Elements(outcome.related) = ContractEnds(traces)

C21_Witness ==
    /\ traced # <<>>
    /\ ~traced[1].outcome.throws
    /\ Len(traced[1].traces) = 2
    /\ traced[1].outcome.traces[1].type = "contract-to-eoa"
    /\ traced[1].outcome.traces[2].type = "eoa-to-contract"
    /\ Elements(traced[1].outcome.related) = {"0xa1", "0xb2"}

\* A step names an address that fails the validator.
InvalidSide(step) == ~isValidAddress(step.from) \/ ~isValidAddress(step.to)

\* C26: a trace step whose from or to is malformed, empty or the zero address
\* never aborts the run: the invalid side is skipped, taken as not a
\* contract, and the analysis of the list goes on to its end.
C26_InvalidAddressSkipped ==
    (traced # <<>> /\ \E i \in 1..Len(traced[1].traces) : InvalidSide(traced[1].traces[i])) =>
        /\ ~traced[1].outcome.throws
        /\ Len(traced[1].outcome.traces) = Len(traced[1].traces)
        /\ \A i \in 1..Len(traced[1].traces) :
              traced[1].outcome.traces[i].type = TypeByCode(traced[1].traces[i])

\* C22: the trace analyzer and the transaction classifier agree: the
\* suspicious flag isSuspiciousCall gives a trace step equals the flag
\* analyzeSingleTransaction gives a transaction with the same input.
C22_TraceAndTransactionFlagsAgree ==
    analysis # <<>> => analysis[1].suspicious = isSuspiciousCall([input |-> tx.input])

C22_Witness ==
    /\ analysis # <<>>
    /\ tx.input = CHANGE_ADMIN
    /\ analysis[1].suspicious
    /\ isSuspiciousCall([input |-> tx.input])

-----------------------------------------------------------------------------
(* Properties of the checkpoint sink *)

\* The files saved under a label of the seed transaction's run.
FilesOf(label) == {f \in disk : f.name[1] = <<HACK_TX, label>>}

\* C23: the sink is idempotent per label: a save under a label that was saved
\* before overwrites the earlier artifact, so there is at most one artifact per
\* label and it holds the snapshot saved last.
C23_OneArtifactPerLabel ==
    \A label \in Labels :
        /\ Cardinality(FilesOf(label)) <= 1
        /\ \A f \in FilesOf(label) : f.data = stringify(lastSaved[label])

-----------------------------------------------------------------------------
(* Properties of the report writers *)

\* JSON.parse of what was written for relatedContracts, as a set of elements.
ElementsRead(json) == IF json.type = "array" THEN Elements(json.items) ELSE {}

\* C24: in every serialized report, checkpoint or final JSON report,
\* relatedContracts is written as a list, and reading it back gives the
\* elements of the in-memory Set.
C24_RelatedContractsRoundTrip ==
    serialized # <<>> =>
        /\ serialized[1].relatedContracts.type = "array"
        /\ ElementsRead(serialized[1].relatedContracts) =
              Elements(serialized[1].analysis.relatedContracts.Set)

-----------------------------------------------------------------------------
(* Properties of the explorer client *)

-----------------------------------------------------------------------------
(* Properties of the history filter *)

\* Both ends of a transaction or of its classification pass the validator.
ValidEnds(t) == isValidAddress(t.from) /\ isValidAddress(t.to)

\* C27: the history the crawl and the victim analysis work on has no entry
\* whose from or to fails the validator: every transaction that is classified,
\* and so every entry of suspiciousActions and of victimAnalysis.transactions,
\* has a valid non-zero from and to.
C27_HistoryEntriesValid ==
    /\ \A i \in 1..Len(seen) : ValidEnds(seen[i][2])
    /\ report # <<>> =>
          /\ \A i \in 1..Len(report[1].suspiciousActions) :
                ValidEnds(report[1].suspiciousActions[i])
          /\ report[1].victimAnalysis # <<>> =>
                \A i \in 1..Len(report[1].victimAnalysis[1].transactions) :
                    ValidEnds(report[1].victimAnalysis[1].transactions[i])

C27_Witness ==
    /\ pc = "returned"
    /\ Len(seen) = 2
    /\ Len(report[1].suspiciousActions) = 1
    /\ Len(report[1].victimAnalysis[1].transactions) = 1

-----------------------------------------------------------------------------
(* Properties of the snapshots around the seed transaction *)

\* The address in the implementation slot of the ledger at block b.
ImplementationAt(b) == toChecksumAddress(LowOrder20(snapshot[1].slot[b]))

\* C28: the before snapshot is read at the block of the seed transaction minus
\* one and the after snapshot at that block, and the implementation-changed
\* signal is raised exactly when before.implementation differs from
\* after.implementation.
C28_SnapshotsAroundSeedBlock ==
    snapshot # <<>> =>
        LET n == snapshot[1].blockNumber
            stateChanges == snapshot[1].stateChanges
        IN  /\ stateChanges.before.implementation = ImplementationAt(n - 1)
            /\ stateChanges.after.implementation = ImplementationAt(n)
            /\ snapshot[1].signal <=> (ImplementationAt(n - 1) # ImplementationAt(n))

C28_Witness ==
    /\ snapshot # <<>>
    /\ snapshot[1].blockNumber = 2
    /\ snapshot[1].slot[1] = IMPL1_WORD
    /\ snapshot[1].slot[2] = IMPL2_WORD
    /\ snapshot[1].slot[3] = IMPL2_WORD
    /\ snapshot[1].signal
    /\ snapshot[1].stateChanges.before.implementation = KNOWN_IMPLEMENTATION

-----------------------------------------------------------------------------
(* Properties of the calls in flight *)

\* C29: during one run at most one ledger or explorer call is in flight at
\* any time, also inside the Promise.all fan-outs of decodeLogs and
\* analyzeVictimContract, where none is.
C29_OneCallInFlight ==
    /\ inflight <= 1
    /\ fpc[2] = "fanned" => inflight = 0
    /\ inflight = 1 <=> fpc[2] = "awaiting"

C29_Witness ==
    /\ fpc[2] = "fanned"
    /\ Awaits[fpc[1]].kind = "async"
    /\ callbacks = <<"decoding", "done", "decoding">>
    /\ inflight = 0

-----------------------------------------------------------------------------
(* Properties of the final report *)

\* The fields the four phases write are present in a report.
AllPhasesPresent(r) ==
    /\ r.hackDetails # <<>>
    /\ r.victimAnalysis # <<>>
    /\ r.implementationHistory # <<>>

\* C30: when analyzeFromHack returns normally, a final durable artifact exists
\* and its content equals the returned in-memory report, with the fields of
\* all four phases present.
C30_FinalArtifactEqualsReturned ==
    pc = "returned" =>
        /\ returned # <<>>
        /\ AllPhasesPresent(returned[1])
        /\ \E f \in disk :
              /\ f.name[1] = <<returned[1].hackTransaction, "final">>
              /\ f.data = stringify(returned)

-----------------------------------------------------------------------------
(* Properties of the log decoder *)

\* The logs of the receipt that have a non-empty first topic.
WithFirstTopic(logs) ==
    SelectSeq(logs, LAMBDA log : log.topics # <<>> /\ log.topics[1] # "")

\* The classification a log with a first topic is due: by its event, and
\* "unknown" when the event is unknown or its data cannot be decoded.
DueType(log) ==
    IF log.topics[1] = IMPLEMENTATION_CHANGED THEN "implementation_change"
    ELSE IF log.topics[1] = ADMIN_CHANGED /\ ~decodeParametersThrows(log.data)
    THEN "admin_change"
    ELSE "unknown"

\* C31: every log with a non-empty first topic yields one entry of decodeLogs,
\* in the order of the logs: implementation_change, admin_change, or unknown
\* when its data cannot be decoded.
C31_EveryLogYieldsAnEntry ==
    \A k \in 1..Len(logsDecoded) :
        LET due == WithFirstTopic(logsDecoded[k].logs)
            decoded == logsDecoded[k].decoded
        IN  /\ Len(decoded) = Len(due)
            /\ \A i \in 1..Len(due) :
                   /\ decoded[i].transactionHash = due[i].transactionHash
                   /\ decoded[i].type = DueType(due[i])

-----------------------------------------------------------------------------
(* Frame of the phases *)

\* The step leaves every field of the report but `fields` as it was.
SameBut(fields) ==
    \A f \in DOMAIN report[1] \ fields : report'[1][f] = report[1][f]

\* C32: a step of the victim-contract phase changes no report field but
\* victimAnalysis; a step of the crawl only appends to suspiciousActions and
\* only grows processed; a step of the history phase changes no field but
\* implementationHistory; relatedContracts changes in the seed-transaction
\* phase only.
C32_PhasesWriteOwnFields ==
    [][/\ pc = "phase2" => SameBut({"victimAnalysis"})
       /\ pc \in {"phase3", "crawl", "crawlTx"} =>
             /\ SameBut({"suspiciousActions"})
             /\ IsPrefix(report[1].suspiciousActions, report'[1].suspiciousActions)
             /\ processedContracts \subseteq processedContracts'
       /\ pc = "phase4" => SameBut({"implementationHistory"})
       /\ pc \notin {"idle", "returned", "thrown", "phase1"} =>
             report'[1].relatedContracts = report[1].relatedContracts]_vars

C32_Witness ==
    /\ pc = "returned"
    /\ report[1].relatedContracts.Set # <<>>
    /\ report[1].hackDetails # <<>>
    /\ report[1].victimAnalysis # <<>>
    /\ report[1].victimAnalysis[1].transactions # <<>>
    /\ report[1].suspiciousActions # <<>>
    /\ processedContracts # {}
    /\ report[1].implementationHistory # <<>>

-----------------------------------------------------------------------------
(* Properties of the crawl's report *)

\* The explorer lists a transaction in the history of its sender and in the
\* history of its recipient: every entry visited was listed for the address
\* whose history it is in.
HistoriesGenuine ==
    \A i \in 1..Len(seen) :
        Account(seen[i][1]) \in {Account(seen[i][2].from), Account(seen[i][2].to)}

\* Every history fetched belongs to another account.
AccountsDistinct ==
    \A i, j \in 1..Len(fetched) : i # j => Account(fetched[i]) # Account(fetched[j])

\* C33: after a crawl no transaction hash appears more than once in
\* suspiciousActions, also when a suspicious transaction is in the histories
\* of two processed addresses, its sender and its recipient.
C33_NoDuplicateSuspiciousAction ==
    (CrawlDone /\ HistoriesGenuine /\ AccountsDistinct) =>
        \A i, j \in 1..Len(report[1].suspiciousActions) :
            i # j => report[1].suspiciousActions[i].hash
                        # report[1].suspiciousActions[j].hash

\* An address the crawl holds: an element of the Set, yielded or not, or an
\* element of processed.
Held == Elements(contractsToAnalyze) \cup processedContracts

\* a is the recipient of an entry visited in the history of a processed address.
RecipientOfProcessed(a) ==
    \E i \in 1..Len(seen) : seen[i][2].to = a /\ seen[i][1] \in processedContracts

\* C34: throughout a crawl every address in pending or processed, other than
\* the seed, is a valid address with bytecode and the recipient of a
\* transaction in the history of an address processed before.
C34_HeldAddressesAreDiscoveredContracts ==
    (InCrawl \/ CrawlDone) =>
        \A a \in Held \ {report[1].suspectAddress} :
            /\ isValidAddress(a)
            /\ HasCode(a)
            /\ RecipientOfProcessed(a)

-----------------------------------------------------------------------------
(* Properties of the endpoint failover *)

\* C35: tryWithDifferentRPC tries the endpoints in list order, each once; it
\* stops at the first attempt that succeeds and returns that attempt's
\* result; it throws only after the last endpoint failed, and then the error
\* of the last endpoint.
C35_FailoverInListOrder ==
    /\ [](/\ rpc <= Len(RPC_NODES)
          /\ Len(attempts) \in {rpc - 1, rpc}
          /\ \A i \in 1..Len(attempts) : attempts[i].url = RPC_NODES[i])
    /\ [][/\ rpc' \in {rpc, rpc + 1}
          /\ (pc = "returned" /\ rpc >= 1) => rpc' = rpc]_vars
    /\ [](settled # <<>> =>
            IF settled[1].kind = "returned"
            THEN /\ Len(attempts) = rpc - 1
                 /\ pc = "returned"
                 /\ settled[1].result = returned
                 /\ returned # <<>>
            ELSE /\ rpc = Len(RPC_NODES)
                 /\ Len(attempts) = Len(RPC_NODES)
                 /\ settled[1].error = <<attempts[Len(RPC_NODES)].error>>)

C35_Witness ==
    /\ settled # <<>>
    /\ settled[1].kind = "threw"
    /\ Len(attempts) = 3
    /\ attempts[1].error # attempts[3].error
    /\ attempts[2].error # attempts[3].error

\* C36: every attempt runs the four phases from the start on an analyzer of
\* its own: it starts with an empty report and nothing processed, and the
\* report a later attempt returns holds what that attempt read and nothing
\* else, the processed addresses being those it fetched.
C36_AttemptsShareNothing ==
    /\ (rpc >= 1 /\ pc = "phase1") =>
          /\ processedContracts = {}
          /\ report = <<newReport(HACK_TX, VICTIM_CONTRACT, HACKER_ADDRESS)>>
    /\ (settled # <<>> /\ settled[1].kind = "returned") =>
        LET result == settled[1].result[1]
        IN  /\ trail = <<"phase1", "phase2", "phase3", "phase4">>
            /\ processedContracts = Elements(fetched)
            /\ Len(result.suspiciousActions) = Len(SuspiciousSeen)
            /\ \A i \in 1..Len(SuspiciousSeen) :
                  result.suspiciousActions[i].hash = SuspiciousSeen[i][2].hash
            /\ Elements(result.relatedContracts.Set)
                  = ContractEnds(result.hackDetails[1].traces)
            /\ result.suspectAddress = HACKER_ADDRESS

\* The first attempt failed in its fourth phase, after its crawl had processed
\* the seed; a later attempt returned.
C36_Witness ==
    /\ settled # <<>>
    /\ settled[1].kind = "returned"
    /\ attempts # <<>>
    /\ attempts[1].error = "getBlockNumber failed"
    /\ attempts[1].processed # {}
    /\ processedContracts # {}

-----------------------------------------------------------------------------
(* Properties of the checkpoints *)

Saving == pc \in {"save1", "save2", "save3", "saveFinal"}

\* C37: a checkpoint that could not be written changes nothing of the run:
\* after a per-phase or final checkpoint the run goes on to its next statement
\* with the report, and after the checkpoint of the catch block the error
\* caught in the phase is the error thrown.
C37_CheckpointFailureAbsorbed ==
    /\ [][(Saving /\ disk' = disk) =>
             /\ pc' = afterSave(pc)
             /\ report' = report
             /\ caught' = caught
             /\ pc = "saveFinal" => returned' = report]_vars
    /\ [][pc = "catch" => (pc' = "thrown" /\ raised' = caught /\ caught # <<>>)]_vars
    /\ [](pc = "thrown" => raised \in {<<"getTransaction failed">>,
                                       <<"getCode rejected the address">>,
                                       <<"getStorageAt failed">>,
                                       <<"getCode failed">>,
                                       <<"fetch failed">>,
                                       <<"getBlockNumber failed">>})

\* Three checkpoints and the checkpoint of the catch block failed, and the
\* run threw the error of its fourth phase.
C37_Witness ==
    /\ version = "checkpointing"
    /\ pc = "thrown"
    /\ trail = <<"phase1", "step1", "phase2", "step2", "phase3", "step3", "phase4", "error">>
    /\ disk = {}
    /\ raised = <<"getBlockNumber failed">>

-----------------------------------------------------------------------------
(* Properties of the victim analysis *)

\* A transaction that calls one of the critical selectors.
CriticalCall(t) ==
    /\ Len(t.input) >= SelectorLen
    /\ SubSeq(t.input, 1, SelectorLen) \in CriticalSelectors

\* The victim's history as the phase reads it: nothing when the explorer's
\* status is not '1', otherwise the entries whose from and to are valid.
FilteredHistory(run) ==
    IF run.status # "1" THEN <<>>
    ELSE SelectSeq(run.history, LAMBDA t : ~Rejected(t.from) /\ ~Rejected(t.to))

\* C38: victimAnalysis.transactions is the subsequence of the victim's
\* filtered history that the classifier marks suspicious, in the order of the
\* history, whatever the order in which the callbacks of Promise.all settle.
C38_VictimTransactionsInHistoryOrder ==
    \A k \in 1..Len(victimRun) :
        LET due == SelectSeq(FilteredHistory(victimRun[k]), CriticalCall)
            kept == victimRun[k].transactions
        IN  /\ Len(kept) = Len(due)
            /\ \A i \in 1..Len(due) :
                  /\ kept[i].hash = due[i].hash
                  /\ kept[i].input = due[i].input
                  /\ kept[i].suspicious

\* Two different suspicious transactions and one that is not, with the
\* callbacks settling in the reverse order.
C38_Witness ==
    /\ victimRun # <<>>
    /\ victimRun[1].history = <<T1, T3, T7>>
    /\ victimRun[1].order = <<3, 2, 1>>
    /\ Len(victimRun[1].transactions) = 2

====
